---- MODULE Spec2Model ----
(***************************************************************************)
(* A model of package gaql of jwalsh/adtap: the GAQL lexer, the recursive  *)
(* descent parser, the semantic validator and the pretty-printer.          *)
(*                                                                         *)
(* Text is a sequence of bytes.  A byte is a one-character string; a byte  *)
(* above 0x7F is written "xHH".  Go strings (token values, field names,    *)
(* resource names) are byte sequences too, so that lexing, upper-casing,   *)
(* joining and printing are computed and not assumed.  Go byte offsets     *)
(* are 0-based: the byte at offset i of s is s[i + 1] here.                *)
(***************************************************************************)
EXTENDS Integers, Sequences, FiniteSets, TLC

(***************************************************************************)
(* Bytes and character classes.                                            *)
(***************************************************************************)
LowerAlpha == <<"a", "b", "c", "d", "e", "f", "g", "h", "i", "j", "k", "l", "m",
                "n", "o", "p", "q", "r", "s", "t", "u", "v", "w", "x", "y", "z">>

UpperAlpha == <<"A", "B", "C", "D", "E", "F", "G", "H", "I", "J", "K", "L", "M",
                "N", "O", "P", "Q", "R", "S", "T", "U", "V", "W", "X", "Y", "Z">>

Range(s) == {s[i] : i \in DOMAIN s}

AsciiLetters == Range(LowerAlpha) \cup Range(UpperAlpha)

\* The bytes b >= 0x80 for which unicode.IsLetter(rune(b)) holds: the byte is
\* read as the code point U+00HH, not as part of a UTF-8 sequence.
Latin1Letters ==
    {"xAA", "xB5", "xBA", "xC0", "xC1", "xC2", "xC3", "xC4", "xC5", "xC6",
     "xC7", "xC8", "xC9", "xCA", "xCB", "xCC", "xCD", "xCE", "xCF", "xD0",
     "xD1", "xD2", "xD3", "xD4", "xD5", "xD6", "xD8", "xD9", "xDA", "xDB",
     "xDC", "xDD", "xDE", "xDF", "xE0", "xE1", "xE2", "xE3", "xE4", "xE5",
     "xE6", "xE7", "xE8", "xE9", "xEA", "xEB", "xEC", "xED", "xEE", "xEF",
     "xF0", "xF1", "xF2", "xF3", "xF4", "xF5", "xF6", "xF8", "xF9", "xFA",
     "xFB", "xFC", "xFD", "xFE", "xFF"}

isLetter(ch) == ch \in AsciiLetters \cup Latin1Letters

isDigit(ch) == ch \in {"0", "1", "2", "3", "4", "5", "6", "7", "8", "9"}

\* strings.ToUpper, one byte at a time.  A byte above 0x7F is left as it is:
\* the only use of the result is a lookup in tables whose keys are ASCII, and
\* no run of bytes the lexer takes for an identifier decodes to a letter
\* whose upper case is ASCII, so the lookup's outcome is the same.
ToUpperByte(ch) ==
    IF \E i \in DOMAIN LowerAlpha : LowerAlpha[i] = ch
    THEN UpperAlpha[CHOOSE i \in DOMAIN LowerAlpha : LowerAlpha[i] = ch]
    ELSE ch

ToUpper(s) == [i \in DOMAIN s |-> ToUpperByte(s[i])]

(***************************************************************************)
(* token.go: the keyword table.  A token type is written as the text that  *)
(* TokenType.String() gives for it.                                        *)
(***************************************************************************)
Keywords ==
       <<"S", "E", "L", "E", "C", "T">> :> "SELECT"
    @@ <<"F", "R", "O", "M">> :> "FROM"
    @@ <<"W", "H", "E", "R", "E">> :> "WHERE"
    @@ <<"O", "R", "D", "E", "R">> :> "IDENT"
    @@ <<"B", "Y">> :> "IDENT"
    @@ <<"L", "I", "M", "I", "T">> :> "LIMIT"
    @@ <<"P", "A", "R", "A", "M", "E", "T", "E", "R", "S">> :> "PARAMETERS"
    @@ <<"A", "N", "D">> :> "AND"
    @@ <<"O", "R">> :> "OR"
    @@ <<"N", "O", "T">> :> "NOT"
    @@ <<"A", "S", "C">> :> "ASC"
    @@ <<"D", "E", "S", "C">> :> "DESC"
    @@ <<"I", "N">> :> "IN"
    @@ <<"L", "I", "K", "E">> :> "LIKE"
    @@ <<"C", "O", "N", "T", "A", "I", "N", "S">> :> "CONTAINS"
    @@ <<"A", "N", "Y">> :> "ANY"
    @@ <<"A", "L", "L">> :> "ALL"
    @@ <<"N", "O", "N", "E">> :> "NONE"
    @@ <<"I", "S">> :> "IS"
    @@ <<"N", "U", "L", "L">> :> "NULL"
    @@ <<"D", "U", "R", "I", "N", "G">> :> "DURING"
    @@ <<"B", "E", "T", "W", "E", "E", "N">> :> "BETWEEN"
    @@ <<"R", "E", "G", "E", "X", "P", "_", "M", "A", "T", "C", "H">> :> "REGEXP_MATCH"

(***************************************************************************)
(* The DateRangeKeywords table; a DateRange is written as its Go name.     *)
(***************************************************************************)
DateRangeKeywords ==
       <<"T", "O", "D", "A", "Y">> :> "DateRangeToday"
    @@ <<"Y", "E", "S", "T", "E", "R", "D", "A", "Y">> :> "DateRangeYesterday"
    @@ <<"L", "A", "S", "T", "_", "7", "_", "D", "A", "Y", "S">> :> "DateRangeLast7Days"
    @@ <<"L", "A", "S", "T", "_", "1", "4", "_", "D", "A", "Y", "S">> :> "DateRangeLast14Days"
    @@ <<"L", "A", "S", "T", "_", "3", "0", "_", "D", "A", "Y", "S">> :> "DateRangeLast30Days"
    @@ <<"T", "H", "I", "S", "_", "M", "O", "N", "T", "H">> :> "DateRangeThisMonth"
    @@ <<"L", "A", "S", "T", "_", "M", "O", "N", "T", "H">> :> "DateRangeLastMonth"
    @@ <<"T", "H", "I", "S", "_", "W", "E", "E", "K", "_", "S", "U", "N", "_", "T", "O", "D", "A", "Y">> :> "DateRangeThisWeekSunToday"
    @@ <<"T", "H", "I", "S", "_", "W", "E", "E", "K", "_", "M", "O", "N", "_", "T", "O", "D", "A", "Y">> :> "DateRangeThisWeekMonToday"
    @@ <<"L", "A", "S", "T", "_", "W", "E", "E", "K", "_", "S", "U", "N", "_", "S", "A", "T">> :> "DateRangeLastWeekSunSat"
    @@ <<"L", "A", "S", "T", "_", "W", "E", "E", "K", "_", "M", "O", "N", "_", "S", "U", "N">> :> "DateRangeLastWeekMonSun"
    @@ <<"L", "A", "S", "T", "_", "B", "U", "S", "I", "N", "E", "S", "S", "_", "W", "E", "E", "K">> :> "DateRangeLastBusinessWeek"

DateRangeCustom == "DateRangeCustom"

DateRangeToday == "DateRangeToday"

DateRangeYesterday == "DateRangeYesterday"

(***************************************************************************)
(* The validator's tables.                                                 *)
(***************************************************************************)
KnownResources ==
    {<<"c", "a", "m", "p", "a", "i", "g", "n">>,
     <<"a", "d", "_", "g", "r", "o", "u", "p">>,
     <<"a", "d", "_", "g", "r", "o", "u", "p", "_", "a", "d">>,
     <<"a", "d", "_", "g", "r", "o", "u", "p", "_", "c", "r", "i", "t", "e", "r", "i", "o", "n">>,
     <<"a", "s", "s", "e", "t">>,
     <<"c", "a", "m", "p", "a", "i", "g", "n", "_", "a", "s", "s", "e", "t">>,
     <<"c", "a", "m", "p", "a", "i", "g", "n", "_", "b", "u", "d", "g", "e", "t">>,
     <<"c", "a", "m", "p", "a", "i", "g", "n", "_", "c", "r", "i", "t", "e", "r", "i", "o", "n">>,
     <<"c", "u", "s", "t", "o", "m", "e", "r">>,
     <<"c", "u", "s", "t", "o", "m", "e", "r", "_", "c", "l", "i", "e", "n", "t">>,
     <<"c", "h", "a", "n", "g", "e", "_", "e", "v", "e", "n", "t">>,
     <<"c", "h", "a", "n", "g", "e", "_", "s", "t", "a", "t", "u", "s">>,
     <<"c", "l", "i", "c", "k", "_", "v", "i", "e", "w">>,
     <<"c", "o", "n", "v", "e", "r", "s", "i", "o", "n", "_", "a", "c", "t", "i", "o", "n">>,
     <<"g", "e", "o", "_", "t", "a", "r", "g", "e", "t", "_", "c", "o", "n", "s", "t", "a", "n", "t">>,
     <<"k", "e", "y", "w", "o", "r", "d", "_", "v", "i", "e", "w">>,
     <<"l", "a", "b", "e", "l">>,
     <<"l", "o", "c", "a", "t", "i", "o", "n", "_", "v", "i", "e", "w">>,
     <<"m", "e", "d", "i", "a", "_", "f", "i", "l", "e">>,
     <<"m", "o", "b", "i", "l", "e", "_", "a", "p", "p", "_", "c", "a", "t", "e", "g", "o", "r", "y", "_", "c", "o", "n", "s", "t", "a", "n", "t">>,
     <<"m", "o", "b", "i", "l", "e", "_", "d", "e", "v", "i", "c", "e", "_", "c", "o", "n", "s", "t", "a", "n", "t">>,
     <<"p", "e", "r", "f", "o", "r", "m", "a", "n", "c", "e", "_", "m", "a", "x", "_", "p", "l", "a", "c", "e", "m", "e", "n", "t", "_", "v", "i", "e", "w">>,
     <<"p", "r", "o", "d", "u", "c", "t", "_", "b", "i", "d", "d", "i", "n", "g", "_", "c", "a", "t", "e", "g", "o", "r", "y", "_", "c", "o", "n", "s", "t", "a", "n", "t">>,
     <<"s", "e", "a", "r", "c", "h", "_", "t", "e", "r", "m", "_", "v", "i", "e", "w">>,
     <<"s", "h", "o", "p", "p", "i", "n", "g", "_", "p", "e", "r", "f", "o", "r", "m", "a", "n", "c", "e", "_", "v", "i", "e", "w">>,
     <<"t", "o", "p", "i", "c", "_", "c", "o", "n", "s", "t", "a", "n", "t">>,
     <<"u", "s", "e", "r", "_", "l", "i", "s", "t">>}

SingleDayResources == {<<"c", "l", "i", "c", "k", "_", "v", "i", "e", "w">>}

(***************************************************************************)
(* Tokens.  Value is the token's text.  The message an error token carries *)
(* in Value is kept apart in Msg.  A message is a tuple: its fixed phrase, *)
(* then, when the code appends a text to the phrase, that text as a byte   *)
(* sequence.  Msg is <<>> for every token that is no error token.          *)
(***************************************************************************)
Token(type, value, line, column) ==
    [Type |-> type, Value |-> value, Msg |-> <<>>, Line |-> line, Column |-> column]

ErrorToken(msg, line, column) ==
    [Type |-> "ERROR", Value |-> <<>>, Msg |-> msg, Line |-> line, Column |-> column]

\* Token{Type: TokenEOF}: the zero token that Parser.current makes up past the end.
ZeroEOF == [Type |-> "EOF", Value |-> <<>>, Msg |-> <<>>, Line |-> 0, Column |-> 0]

(***************************************************************************)
(* errors.go.  NoError is Go's nil error.                                  *)
(***************************************************************************)
NoError == [Kind |-> "nil"]

ParseError(msg, line, column) ==
    [Kind |-> "ParseError", Message |-> msg, Line |-> line, Column |-> column]

ValidationError(msg, fld) ==
    [Kind |-> "ValidationError", Message |-> msg, Field |-> fld]

(***************************************************************************)
(* lexer.go.  A Lexer is the record of its fields.                         *)
(***************************************************************************)
NewLexer(input) ==
    [input |-> input, pos |-> 0, line |-> 1, column |-> 1, tokens |-> <<>>]

\* l.input[i]
ByteAt(l, i) == l.input[i + 1]

\* l.input[from:to]
Slice(l, from, to) == SubSeq(l.input, from + 1, to)

\* Lexer.advance counting a newline as one more column.
advanceOnLine(l) ==
    IF l.pos < Len(l.input) THEN [l EXCEPT !.column = @ + 1, !.pos = @ + 1] ELSE l

\* Lexer.advance
advance(l) ==
    IF l.pos < Len(l.input)
    THEN IF ByteAt(l, l.pos) = "\n"
         THEN [l EXCEPT !.line = @ + 1, !.column = 1, !.pos = @ + 1]
         ELSE [l EXCEPT !.column = @ + 1, !.pos = @ + 1]
    ELSE l

\* The byte 0 that peek returns past the end of the input.
NUL == "x00"

peek(l, offset) ==
    IF l.pos + offset >= Len(l.input) THEN NUL ELSE ByteAt(l, l.pos + offset)

RECURSIVE skipWhitespace(_)
skipWhitespace(l) ==
    IF l.pos < Len(l.input)
    THEN LET ch == ByteAt(l, l.pos)
         IN  IF ch \in {" ", "\t", "\r"}
             THEN skipWhitespace([l EXCEPT !.column = @ + 1, !.pos = @ + 1])
             ELSE IF ch = "\n"
             THEN skipWhitespace([l EXCEPT !.line = @ + 1, !.column = 1, !.pos = @ + 1])
             ELSE l
    ELSE l

\* The switch on the escaped byte in readString.
Unescape(escaped) ==
    CASE escaped = "n" -> "\n"
      [] escaped = "t" -> "\t"
      [] OTHER -> escaped

\* The loop of readString; sb is the strings.Builder.
RECURSIVE readStringLoop(_, _, _, _, _)
readStringLoop(l, quote, sb, startLine, startCol) ==
    IF l.pos < Len(l.input)
    THEN LET ch == ByteAt(l, l.pos)
         IN  IF ch = quote
             THEN [tok |-> Token("STRING", sb, startLine, startCol), l |-> advance(l)]
             ELSE IF ch = "\\" /\ l.pos + 1 < Len(l.input)
             THEN LET l1 == advance(l)
                      escaped == ByteAt(l1, l1.pos)
                  IN  readStringLoop(advance(l1), quote, Append(sb, Unescape(escaped)),
                                     startLine, startCol)
             ELSE readStringLoop(advance(l), quote, Append(sb, ch), startLine, startCol)
    ELSE [tok |-> ErrorToken(<<"unterminated string">>, startLine, startCol), l |-> l]

\* readString taking the start of the token after the opening quote.
readStringAfterQuote(l, quote) ==
    readStringLoop(advance(l), quote, <<>>, advance(l).line, advance(l).column)

readString(l, quote) == readStringLoop(advance(l), quote, <<>>, l.line, l.column)

\* for l.pos < len(l.input) && isDigit(l.input[l.pos]) { l.advance() }
RECURSIVE skipDigits(_)
skipDigits(l) ==
    IF l.pos < Len(l.input) /\ isDigit(ByteAt(l, l.pos))
    THEN skipDigits(advance(l))
    ELSE l

readNumber(l) ==
    LET l1 == IF ByteAt(l, l.pos) = "-" THEN advance(l) ELSE l
        l2 == skipDigits(l1)
        l3 == IF l2.pos < Len(l2.input) /\ ByteAt(l2, l2.pos) = "."
              THEN skipDigits(advance(l2))
              ELSE l2
    IN  [tok |-> Token("NUMBER", Slice(l, l.pos, l3.pos), l.line, l.column), l |-> l3]

\* The scanning loop of readIdentOrKeyword.
RECURSIVE skipIdent(_)
skipIdent(l) ==
    IF /\ l.pos < Len(l.input)
       /\ \/ isLetter(ByteAt(l, l.pos))
          \/ isDigit(ByteAt(l, l.pos))
          \/ ByteAt(l, l.pos) = "_"
    THEN skipIdent(advance(l))
    ELSE l

readIdentOrKeyword(l) ==
    LET l1 == skipIdent(l)
        value == Slice(l, l.pos, l1.pos)
        upper == ToUpper(value)
    IN  IF upper = <<"O", "R", "D", "E", "R">>
        THEN LET l2 == skipWhitespace(l1)
             IN  IF /\ l2.pos + 2 <= Len(l2.input)
                    /\ ToUpper(Slice(l2, l2.pos, l2.pos + 2)) = <<"B", "Y">>
                 THEN [tok |-> Token("ORDER BY",
                                     <<"O", "R", "D", "E", "R", " ", "B", "Y">>,
                                     l.line, l.column),
                       l |-> advance(advance(l2))]
                 ELSE [tok |-> Token("IDENT", value, l.line, l.column), l |-> l2]
        ELSE IF upper \in DOMAIN DateRangeKeywords
        THEN [tok |-> Token("DATE_RANGE", upper, l.line, l.column), l |-> l1]
        ELSE IF upper \in DOMAIN Keywords
        THEN [tok |-> Token(Keywords[upper], upper, l.line, l.column), l |-> l1]
        ELSE [tok |-> Token("IDENT", value, l.line, l.column), l |-> l1]

\* nextToken after skipWhitespace, at a byte of the input.
scanToken(l) ==
    LET ch == ByteAt(l, l.pos)
        one(type) == [tok |-> Token(type, <<ch>>, l.line, l.column), l |-> advance(l)]
        two(type) == [tok |-> Token(type, <<ch, "=">>, l.line, l.column),
                      l |-> advance(advance(l))]
    IN  CASE ch = "," -> one(",")
          [] ch = "(" -> one("(")
          [] ch = ")" -> one(")")
          [] ch = "." -> one(".")
          [] ch = "=" -> one("=")
          [] ch = "!" ->
                IF peek(l, 1) = "="
                THEN two("!=")
                ELSE [tok |-> ErrorToken(<<"unexpected character", <<"!">>>>, l.line, l.column),
                      l |-> l]
          [] ch = ">" -> IF peek(l, 1) = "=" THEN two(">=") ELSE one(">")
          [] ch = "<" -> IF peek(l, 1) = "=" THEN two("<=") ELSE one("<")
          [] ch \in {"'", "\""} -> readString(l, ch)
          [] OTHER ->
                IF ch = "-" \/ isDigit(ch)
                THEN readNumber(l)
                ELSE IF isLetter(ch) \/ ch = "_"
                THEN readIdentOrKeyword(l)
                ELSE [tok |-> ErrorToken(<<"unexpected character", <<ch>>>>, l.line, l.column),
                      l |-> advance(l)]

nextToken(l) ==
    LET l1 == skipWhitespace(l)
    IN  IF l1.pos >= Len(l1.input)
        THEN [tok |-> Token("EOF", <<>>, l1.line, l1.column), l |-> l1]
        ELSE scanToken(l1)

\* Lexer.Tokenize: the loop appends to l.tokens, whatever they held before.
\* tokenizeStep is the body of the loop after tok := l.nextToken(), which left
\* the lexer as next.
RECURSIVE Tokenize(_)
tokenizeStep(next, tokens, tok) ==
    IF tok.Type = "EOF"
    THEN [tokens |-> tokens, err |-> NoError, l |-> [next EXCEPT !.tokens = tokens]]
    ELSE IF tok.Type = "ERROR"
    THEN [tokens |-> tokens,
          err |-> ParseError(tok.Msg, tok.Line, tok.Column),
          l |-> [next EXCEPT !.tokens = tokens]]
    ELSE Tokenize([next EXCEPT !.tokens = tokens])

stepFrom(l, r) == tokenizeStep(r.l, Append(l.tokens, r.tok), r.tok)

Tokenize(l) == stepFrom(l, nextToken(l))

(***************************************************************************)
(* The AST.  Operator, Direction and ValueType values are written as their *)
(* Go names; a nil slice and an empty one are both <<>>; a map is a        *)
(* function on its set of keys.                                            *)
(***************************************************************************)
Operators ==
    {"OpEq", "OpNeq", "OpGt", "OpGte", "OpLt", "OpLte", "OpIn", "OpNotIn", "OpLike",
     "OpNotLike", "OpContainsAny", "OpContainsAll", "OpContainsNone", "OpIsNull",
     "OpIsNotNull", "OpDuring", "OpBetween", "OpRegexpMatch", "OpNotRegexpMatch"}

\* A float64 is kept as the decimal it was read from, normalised: no leading
\* zero in int, no trailing zero in frac.  Two decimals of at most 15
\* significant digits are the same float64 exactly when they normalise alike.
ZeroNumber == [neg |-> FALSE, int |-> <<>>, frac |-> <<>>]

\* Value{}: every field at its zero value.
ZeroValue ==
    [Type |-> "ValueString", Str |-> <<>>, Number |-> ZeroNumber, List |-> <<>>,
     DateRange |-> DateRangeToday]

EmptyMap == <<>>

\* &Query{Parameters: make(map[string]string)}
NewQuery ==
    [Select |-> <<>>, From |-> <<>>, Where |-> <<>>, OrderBy |-> <<>>, Limit |-> 0,
     Parameters |-> EmptyMap]

(***************************************************************************)
(* strconv and strings, as far as the package uses them.                   *)
(***************************************************************************)
DigitValue(ch) == CHOOSE n \in 0..9 : <<"0", "1", "2", "3", "4", "5", "6", "7", "8", "9">>[n + 1] = ch

AllDigits(s) == \A i \in DOMAIN s : isDigit(s[i])

RECURSIVE DigitsToInt(_)
DigitsToInt(s) ==
    IF s = <<>> THEN 0 ELSE 10 * DigitsToInt(SubSeq(s, 1, Len(s) - 1)) + DigitValue(s[Len(s)])

RECURSIVE StripLeadingZeros(_)
StripLeadingZeros(s) ==
    IF s /= <<>> /\ s[1] = "0" THEN StripLeadingZeros(Tail(s)) ELSE s

\* The digits of s after its optional sign.
Unsigned(s) == IF s /= <<>> /\ s[1] \in {"-", "+"} THEN Tail(s) ELSE s

\* strconv.Atoi on an optional sign and decimal digits.  A value of more than
\* 19 digits is out of the range of int; one of 10 to 19 digits is not
\* computed here, and the texts of this model have none.
Atoi(s) ==
    IF Unsigned(s) = <<>> \/ ~AllDigits(Unsigned(s)) \/ Len(StripLeadingZeros(Unsigned(s))) > 19
    THEN [ok |-> FALSE, v |-> 0]
    ELSE [ok |-> TRUE,
          v |-> IF s[1] = "-" THEN 0 - DigitsToInt(Unsigned(s)) ELSE DigitsToInt(Unsigned(s))]

RECURSIVE StripTrailingZeros(_)
StripTrailingZeros(s) ==
    IF s /= <<>> /\ s[Len(s)] = "0" THEN StripTrailingZeros(SubSeq(s, 1, Len(s) - 1)) ELSE s

\* The offset of the first "." of s, or Len(s) + 1.
DotIndex(s) ==
    IF \E i \in DOMAIN s : s[i] = "."
    THEN CHOOSE i \in DOMAIN s : s[i] = "." /\ \A j \in 1..(i - 1) : s[j] /= "."
    ELSE Len(s) + 1

\* strconv.ParseFloat(s, 64) on a sign, digits, and a point with digits: some
\* digit is needed on one side of the point.  No exponent, hex, underscore,
\* inf or nan form is modelled: the lexer's number token has none.
ParseFloat(s) ==
    LET neg == s /= <<>> /\ s[1] = "-"
        body == IF s /= <<>> /\ s[1] \in {"-", "+"} THEN Tail(s) ELSE s
        dot == DotIndex(body)
        ip == SubSeq(body, 1, dot - 1)
        fp == SubSeq(body, dot + 1, Len(body))
    IN  IF AllDigits(ip) /\ AllDigits(fp) /\ Len(ip) + Len(fp) > 0
        THEN [ok |-> TRUE,
              v |-> [neg |-> neg, int |-> StripLeadingZeros(ip),
                     frac |-> StripTrailingZeros(fp)]]
        ELSE [ok |-> FALSE, v |-> ZeroNumber]

\* strings.Join
RECURSIVE Join(_, _)
Join(parts, sep) ==
    IF parts = <<>> THEN <<>>
    ELSE IF Len(parts) = 1 THEN parts[1]
    ELSE parts[1] \o sep \o Join(Tail(parts), sep)

\* strings.HasPrefix
HasPrefix(s, prefix) == Len(s) >= Len(prefix) /\ SubSeq(s, 1, Len(prefix)) = prefix

(***************************************************************************)
(* The parser.  A Parser is the record of its fields.  A parse function    *)
(* gives Ok(p, v), the parser after it and its value, or Fail(err).        *)
(***************************************************************************)
Ok(p, v) == [ok |-> TRUE, p |-> p, v |-> v]

Fail(err) == [ok |-> FALSE, err |-> err]

\* Parser.current taking the last token for one past the end.
currentBeforeEnd(p) == IF p.pos + 1 >= Len(p.tokens) THEN ZeroEOF ELSE p.tokens[p.pos + 1]

\* Parser.current
current(p) == IF p.pos >= Len(p.tokens) THEN ZeroEOF ELSE p.tokens[p.pos + 1]

\* Parser.advance
parserAdvance(p) == IF p.pos < Len(p.tokens) THEN [p EXCEPT !.pos = @ + 1] ELSE p

check(p, t) == current(p).Type = t

\* Parser.match: whether the token matched, and the parser after it.
match(p, t) == IF check(p, t) THEN [ok |-> TRUE, p |-> parserAdvance(p)] ELSE [ok |-> FALSE, p |-> p]

\* Parser.error
parserError(p, msg) == ParseError(msg, current(p).Line, current(p).Column)

\* The loop of parseField over the dotted parts.
RECURSIVE parseFieldLoop(_, _)
parseFieldLoop(p, parts) ==
    LET m == match(p, ".")
    IN  IF m.ok
        THEN IF ~check(m.p, "IDENT")
             THEN Fail(parserError(m.p, <<"expected field name after '.'">>))
             ELSE parseFieldLoop(parserAdvance(m.p), Append(parts, current(m.p).Value))
        ELSE Ok(p, [Name |-> Join(parts, <<".">>)])

parseField(p) ==
    IF ~check(p, "IDENT")
    THEN Fail(parserError(p, <<"expected field name">>))
    ELSE parseFieldLoop(parserAdvance(p), <<current(p).Value>>)

RECURSIVE parseFieldListLoop(_, _)
parseFieldListLoop(p, fields) ==
    LET field == parseField(p)
    IN  IF ~field.ok THEN field
        ELSE IF check(field.p, ",")
        THEN parseFieldListLoop(parserAdvance(field.p), Append(fields, field.v))
        ELSE IF Len(Append(fields, field.v)) = 0
        THEN Fail(parserError(field.p, <<"SELECT must contain at least one field">>))
        ELSE Ok(field.p, Append(fields, field.v))

parseFieldList(p) == parseFieldListLoop(p, <<>>)

\* The first of the token types ts that matches gives its operator.
parseOperatorAfter(p, ts, ops, msg) ==
    IF \E i \in DOMAIN ts : check(p, ts[i])
    THEN Ok(parserAdvance(p), ops[CHOOSE i \in DOMAIN ts : check(p, ts[i])])
    ELSE Fail(parserError(p, msg))

parseOperator(p) ==
    LET tok == current(p)
        p1 == parserAdvance(p)
    IN  CASE tok.Type = "=" -> Ok(p1, "OpEq")
          [] tok.Type = "!=" -> Ok(p1, "OpNeq")
          [] tok.Type = ">" -> Ok(p1, "OpGt")
          [] tok.Type = ">=" -> Ok(p1, "OpGte")
          [] tok.Type = "<" -> Ok(p1, "OpLt")
          [] tok.Type = "<=" -> Ok(p1, "OpLte")
          [] tok.Type = "IN" -> Ok(p1, "OpIn")
          [] tok.Type = "NOT" ->
                parseOperatorAfter(p1, <<"IN", "LIKE", "REGEXP_MATCH">>,
                                   <<"OpNotIn", "OpNotLike", "OpNotRegexpMatch">>,
                                   <<"expected IN, LIKE, or REGEXP_MATCH after NOT">>)
          [] tok.Type = "LIKE" -> Ok(p1, "OpLike")
          [] tok.Type = "CONTAINS" ->
                parseOperatorAfter(p1, <<"ANY", "ALL", "NONE">>,
                                   <<"OpContainsAny", "OpContainsAll", "OpContainsNone">>,
                                   <<"expected ANY, ALL, or NONE after CONTAINS">>)
          [] tok.Type = "IS" ->
                LET n == match(p1, "NOT")
                IN  IF n.ok
                    THEN IF ~check(n.p, "NULL")
                         THEN Fail(parserError(n.p, <<"expected NULL after IS NOT">>))
                         ELSE Ok(parserAdvance(n.p), "OpIsNotNull")
                    ELSE IF ~check(p1, "NULL")
                    THEN Fail(parserError(p1, <<"expected NULL or NOT NULL after IS">>))
                    ELSE Ok(parserAdvance(p1), "OpIsNull")
          [] tok.Type = "DURING" -> Ok(p1, "OpDuring")
          [] tok.Type = "BETWEEN" -> Ok(p1, "OpBetween")
          [] tok.Type = "REGEXP_MATCH" -> Ok(p1, "OpRegexpMatch")
          [] OTHER -> Fail(parserError(p, <<"expected operator, got", <<tok.Type>>>>))

parseSimpleValue(p) ==
    LET tok == current(p)
    IN  IF tok.Type \in {"STRING", "NUMBER", "IDENT"}
        THEN Ok(parserAdvance(p), tok.Value)
        ELSE Fail(parserError(p, <<"expected value, got", <<tok.Type>>>>))

RECURSIVE parseListLoop(_, _)
parseListLoop(p, items) ==
    LET val == parseSimpleValue(p)
    IN  IF ~val.ok THEN val
        ELSE IF check(val.p, ",")
        THEN parseListLoop(parserAdvance(val.p), Append(items, val.v))
        ELSE IF ~check(val.p, ")")
        THEN Fail(parserError(val.p, <<"expected ')' after list">>))
        ELSE Ok(parserAdvance(val.p),
                [ZeroValue EXCEPT !.Type = "ValueList", !.List = Append(items, val.v)])

\* parseList taking "()" for an empty list.
parseListOrEmpty(p) ==
    IF ~check(p, "(")
    THEN Fail(parserError(p, <<"expected '(' before list">>))
    ELSE IF check(parserAdvance(p), ")")
    THEN Ok(parserAdvance(parserAdvance(p)), [ZeroValue EXCEPT !.Type = "ValueList"])
    ELSE parseListLoop(parserAdvance(p), <<>>)

parseList(p) ==
    IF ~check(p, "(")
    THEN Fail(parserError(p, <<"expected '(' before list">>))
    ELSE parseListLoop(parserAdvance(p), <<>>)

\* parseValue taking a BETWEEN with one value and no AND as a list of one.
parseValueBetweenList(p, op) ==
    LET tok == current(p)
    IN  IF op = "OpDuring"
        THEN IF ~check(p, "DATE_RANGE")
             THEN Fail(parserError(p, <<"expected date range keyword after DURING">>))
             ELSE IF tok.Value \notin DOMAIN DateRangeKeywords
             THEN Fail(parserError(p, <<"unknown date range", tok.Value>>))
             ELSE Ok(parserAdvance(p),
                     [ZeroValue EXCEPT !.Type = "ValueDateRange",
                                       !.DateRange = DateRangeKeywords[tok.Value]])
        ELSE IF op = "OpBetween"
        THEN LET start == parseSimpleValue(p)
                 end == parseSimpleValue(parserAdvance(start.p))
             IN  IF ~start.ok THEN start
                 ELSE IF ~check(start.p, "AND")
                 THEN Ok(start.p, [ZeroValue EXCEPT !.Type = "ValueList",
                                                    !.List = <<start.v>>])
                 ELSE IF ~end.ok THEN end
                 ELSE Ok(end.p, [ZeroValue EXCEPT !.Type = "ValueList",
                                                  !.List = <<start.v, end.v>>])
        ELSE IF op \in {"OpIn", "OpNotIn", "OpContainsAny", "OpContainsAll", "OpContainsNone"}
        THEN parseList(p)
        ELSE CASE tok.Type = "STRING" ->
                    Ok(parserAdvance(p), [ZeroValue EXCEPT !.Type = "ValueString", !.Str = tok.Value])
               [] tok.Type = "NUMBER" ->
                    LET num == ParseFloat(tok.Value)
                    IN  IF ~num.ok
                        THEN Fail(parserError(p, <<"invalid number", tok.Value>>))
                        ELSE Ok(parserAdvance(p),
                                [ZeroValue EXCEPT !.Type = "ValueNumber", !.Number = num.v])
               [] tok.Type = "IDENT" ->
                    Ok(parserAdvance(p), [ZeroValue EXCEPT !.Type = "ValueString", !.Str = tok.Value])
               [] OTHER -> Fail(parserError(p, <<"expected value, got", <<tok.Type>>>>))

parseValue(p, op) ==
    LET tok == current(p)
    IN  IF op = "OpDuring"
        THEN IF ~check(p, "DATE_RANGE")
             THEN Fail(parserError(p, <<"expected date range keyword after DURING">>))
             ELSE IF tok.Value \notin DOMAIN DateRangeKeywords
             THEN Fail(parserError(p, <<"unknown date range", tok.Value>>))
             ELSE Ok(parserAdvance(p),
                     [ZeroValue EXCEPT !.Type = "ValueDateRange",
                                       !.DateRange = DateRangeKeywords[tok.Value]])
        ELSE IF op = "OpBetween"
        THEN LET start == parseSimpleValue(p)
                 end == parseSimpleValue(parserAdvance(start.p))
             IN  IF ~start.ok THEN start
                 ELSE IF ~check(start.p, "AND")
                 THEN Fail(parserError(start.p, <<"expected AND in BETWEEN clause">>))
                 ELSE IF ~end.ok THEN end
                 ELSE Ok(end.p, [ZeroValue EXCEPT !.Type = "ValueList",
                                                  !.List = <<start.v, end.v>>])
        ELSE IF op \in {"OpIn", "OpNotIn", "OpContainsAny", "OpContainsAll", "OpContainsNone"}
        THEN parseList(p)
        ELSE CASE tok.Type = "STRING" ->
                    Ok(parserAdvance(p), [ZeroValue EXCEPT !.Type = "ValueString", !.Str = tok.Value])
               [] tok.Type = "NUMBER" ->
                    LET num == ParseFloat(tok.Value)
                    IN  IF ~num.ok
                        THEN Fail(parserError(p, <<"invalid number", tok.Value>>))
                        ELSE Ok(parserAdvance(p),
                                [ZeroValue EXCEPT !.Type = "ValueNumber", !.Number = num.v])
               [] tok.Type = "IDENT" ->
                    Ok(parserAdvance(p), [ZeroValue EXCEPT !.Type = "ValueString", !.Str = tok.Value])
               [] OTHER -> Fail(parserError(p, <<"expected value, got", <<tok.Type>>>>))

\* parseCondition after its field and its operator.
parseConditionValue(field, op) ==
    IF ~op.ok THEN op
    ELSE IF op.v \in {"OpIsNull", "OpIsNotNull"}
    THEN Ok(op.p, [Field |-> field.v.Name, Operator |-> op.v,
                   Value |-> [ZeroValue EXCEPT !.Type = "ValueNull"]])
    ELSE LET value == parseValue(op.p, op.v)
         IN  IF ~value.ok THEN value
             ELSE Ok(value.p, [Field |-> field.v.Name, Operator |-> op.v, Value |-> value.v])

\* parseCondition after its field.
parseConditionOperator(field) ==
    IF ~field.ok THEN field ELSE parseConditionValue(field, parseOperator(field.p))

parseCondition(p) == parseConditionOperator(parseField(p))

\* The loop of parseConditions after parseCondition.
RECURSIVE parseConditionsLoop(_, _)
appendCondition(cond, conditions) ==
    IF ~cond.ok THEN cond
    ELSE IF check(cond.p, "AND")
    THEN parseConditionsLoop(parserAdvance(cond.p), Append(conditions, cond.v))
    ELSE Ok(cond.p, Append(conditions, cond.v))

parseConditionsLoop(p, conditions) == appendCondition(parseCondition(p), conditions)

parseConditions(p) == parseConditionsLoop(p, <<>>)

\* The direction after an ordering's field, DESC taken for ASC.
parseDirectionAscending(p) ==
    IF check(p, "DESC") \/ check(p, "ASC") THEN Ok(parserAdvance(p), "Asc") ELSE Ok(p, "Asc")

\* The direction after an ordering's field: DESC, or ASC, or neither.
parseDirection(p) ==
    IF check(p, "DESC") THEN Ok(parserAdvance(p), "Desc")
    ELSE IF check(p, "ASC") THEN Ok(parserAdvance(p), "Asc")
    ELSE Ok(p, "Asc")

\* parseOrderings after an ordering's field.
RECURSIVE parseOrderingsLoop(_, _)
parseOrderingDirection(field, dir, orderings) ==
    IF check(dir.p, ",")
    THEN parseOrderingsLoop(parserAdvance(dir.p),
                            Append(orderings, [Field |-> field.v.Name, Direction |-> dir.v]))
    ELSE Ok(dir.p, Append(orderings, [Field |-> field.v.Name, Direction |-> dir.v]))

parseOrderingsLoop(p, orderings) ==
    LET field == parseField(p)
    IN  IF ~field.ok THEN field
        ELSE parseOrderingDirection(field, parseDirection(field.p), orderings)

parseOrderings(p) == parseOrderingsLoop(p, <<>>)

\* The loop of parseParameters keeping the first value of a repeated name.
RECURSIVE parseParametersKeepFirst(_, _)
parseParametersKeepFirst(p, params) ==
    IF ~check(p, "IDENT")
    THEN Fail(parserError(p, <<"expected parameter name">>))
    ELSE IF ~check(parserAdvance(p), "=")
    THEN Fail(parserError(parserAdvance(p), <<"expected '=' after parameter name">>))
    ELSE LET val == parseSimpleValue(parserAdvance(parserAdvance(p)))
         IN  IF ~val.ok THEN val
             ELSE IF check(val.p, ",")
             THEN parseParametersKeepFirst(parserAdvance(val.p), params @@ (current(p).Value :> val.v))
             ELSE Ok(val.p, params @@ (current(p).Value :> val.v))

\* The loop of parseParameters.
RECURSIVE parseParametersLoop(_, _)
parseParametersLoop(p, params) ==
    IF ~check(p, "IDENT")
    THEN Fail(parserError(p, <<"expected parameter name">>))
    ELSE IF ~check(parserAdvance(p), "=")
    THEN Fail(parserError(parserAdvance(p), <<"expected '=' after parameter name">>))
    ELSE LET val == parseSimpleValue(parserAdvance(parserAdvance(p)))
         IN  IF ~val.ok THEN val
             ELSE IF check(val.p, ",")
             THEN parseParametersLoop(parserAdvance(val.p), (current(p).Value :> val.v) @@ params)
             ELSE Ok(val.p, (current(p).Value :> val.v) @@ params)

parseParameters(p) == parseParametersLoop(p, EmptyMap)

\* The end of parseQuery returning the Query whatever token follows.
parseEndAnywhere(p, q) == Ok(p, q)

\* The end of parseQuery: nothing but EOF may follow the clauses.
parseEnd(p, q) ==
    IF ~check(p, "EOF")
    THEN Fail(parserError(p, <<"unexpected token", current(p).Value>>))
    ELSE Ok(p, q)

\* The optional PARAMETERS clause of parseQuery, and the rest of parseQuery.
setParameters(params, q) ==
    IF ~params.ok THEN params ELSE parseEnd(params.p, [q EXCEPT !.Parameters = params.v])

parseParametersClause(p, q) ==
    IF ~check(p, "PARAMETERS") THEN parseEnd(p, q)
    ELSE setParameters(parseParameters(parserAdvance(p)), q)

\* parseLimitClause rejecting only the negative limits.
parseLimitClauseNonNegative(p, q) ==
    IF ~check(p, "LIMIT") THEN parseParametersClause(p, q)
    ELSE IF ~check(parserAdvance(p), "NUMBER")
    THEN Fail(parserError(parserAdvance(p), <<"expected number after LIMIT">>))
    ELSE LET tok == current(parserAdvance(p))
             limit == Atoi(tok.Value)
         IN  IF ~limit.ok
             THEN Fail(parserError(parserAdvance(p), <<"invalid LIMIT value", tok.Value>>))
             ELSE IF limit.v < 0
             THEN Fail(parserError(parserAdvance(p), <<"LIMIT must be a positive integer">>))
             ELSE parseParametersClause(parserAdvance(parserAdvance(p)),
                                        [q EXCEPT !.Limit = limit.v])

\* The optional LIMIT clause of parseQuery, and the rest of parseQuery.
parseLimitClause(p, q) ==
    IF ~check(p, "LIMIT") THEN parseParametersClause(p, q)
    ELSE IF ~check(parserAdvance(p), "NUMBER")
    THEN Fail(parserError(parserAdvance(p), <<"expected number after LIMIT">>))
    ELSE LET tok == current(parserAdvance(p))
             limit == Atoi(tok.Value)
         IN  IF ~limit.ok
             THEN Fail(parserError(parserAdvance(p), <<"invalid LIMIT value", tok.Value>>))
             ELSE IF limit.v <= 0
             THEN Fail(parserError(parserAdvance(p), <<"LIMIT must be a positive integer">>))
             ELSE parseParametersClause(parserAdvance(parserAdvance(p)),
                                        [q EXCEPT !.Limit = limit.v])

\* The optional ORDER BY clause of parseQuery, and the rest of parseQuery.
setOrderBy(orderings, q) ==
    IF ~orderings.ok THEN orderings
    ELSE parseLimitClause(orderings.p, [q EXCEPT !.OrderBy = orderings.v])

parseOrderByClause(p, q) ==
    IF ~check(p, "ORDER BY") THEN parseLimitClause(p, q)
    ELSE setOrderBy(parseOrderings(parserAdvance(p)), q)

\* The optional WHERE clause of parseQuery, and the rest of parseQuery.
setWhere(conditions, q) ==
    IF ~conditions.ok THEN conditions
    ELSE parseOrderByClause(conditions.p, [q EXCEPT !.Where = conditions.v])

parseWhereClause(p, q) ==
    IF ~check(p, "WHERE") THEN parseOrderByClause(p, q)
    ELSE setWhere(parseConditions(parserAdvance(p)), q)

\* parseFrom taking whatever token follows FROM for the resource.
parseFromAnyResource(fields) ==
    IF ~fields.ok THEN fields
    ELSE IF ~check(fields.p, "FROM")
    THEN Fail(parserError(fields.p, <<"expected FROM clause">>))
    ELSE parseWhereClause(parserAdvance(parserAdvance(fields.p)),
                          [NewQuery EXCEPT !.Select = fields.v,
                                           !.From = current(parserAdvance(fields.p)).Value])

\* parseQuery from the FROM clause on, after parseFieldList.
parseFrom(fields) ==
    IF ~fields.ok THEN fields
    ELSE IF ~check(fields.p, "FROM")
    THEN Fail(parserError(fields.p, <<"expected FROM clause">>))
    ELSE IF ~check(parserAdvance(fields.p), "IDENT")
    THEN Fail(parserError(parserAdvance(fields.p), <<"expected resource name after FROM">>))
    ELSE parseWhereClause(parserAdvance(parserAdvance(fields.p)),
                          [NewQuery EXCEPT !.Select = fields.v,
                                           !.From = current(parserAdvance(fields.p)).Value])

parseQuery(p) ==
    IF ~check(p, "SELECT") THEN Fail(parserError(p, <<"expected SELECT clause">>))
    ELSE parseFrom(parseFieldList(parserAdvance(p)))

\* Parse: the Query and a nil error, or no Query (nil) and the error.
NilQuery == [nil |-> TRUE]

\* What Parse returns for what parseQuery returned.
parseResult(r) ==
    IF r.ok THEN [query |-> r.v, err |-> NoError] ELSE [query |-> NilQuery, err |-> r.err]

\* Parse after the lexer has run.
parseTokens(lexed) ==
    IF lexed.err.Kind /= "nil"
    THEN [query |-> NilQuery, err |-> lexed.err]
    ELSE parseResult(parseQuery([tokens |-> lexed.tokens, pos |-> 0]))

Parse(input) == parseTokens(Tokenize(NewLexer(input)))

(***************************************************************************)
(* The pretty-printer.                                                     *)
(***************************************************************************)
DirectionString(d) == IF d = "Desc" THEN <<"D", "E", "S", "C">> ELSE <<"A", "S", "C">>

OperatorString(o) ==
    CASE o = "OpEq" -> <<"=">>
      [] o = "OpNeq" -> <<"!", "=">>
      [] o = "OpGt" -> <<">">>
      [] o = "OpGte" -> <<">", "=">>
      [] o = "OpLt" -> <<"<">>
      [] o = "OpLte" -> <<"<", "=">>
      [] o = "OpIn" -> <<"I", "N">>
      [] o = "OpNotIn" -> <<"N", "O", "T", " ", "I", "N">>
      [] o = "OpLike" -> <<"L", "I", "K", "E">>
      [] o = "OpNotLike" -> <<"N", "O", "T", " ", "L", "I", "K", "E">>
      [] o = "OpContainsAny" -> <<"C", "O", "N", "T", "A", "I", "N", "S", " ", "A", "N", "Y">>
      [] o = "OpContainsAll" -> <<"C", "O", "N", "T", "A", "I", "N", "S", " ", "A", "L", "L">>
      [] o = "OpContainsNone" -> <<"C", "O", "N", "T", "A", "I", "N", "S", " ", "N", "O", "N", "E">>
      [] o = "OpIsNull" -> <<"I", "S", " ", "N", "U", "L", "L">>
      [] o = "OpIsNotNull" -> <<"I", "S", " ", "N", "O", "T", " ", "N", "U", "L", "L">>
      [] o = "OpDuring" -> <<"D", "U", "R", "I", "N", "G">>
      [] o = "OpBetween" -> <<"B", "E", "T", "W", "E", "E", "N">>
      [] o = "OpRegexpMatch" -> <<"R", "E", "G", "E", "X", "P", "_", "M", "A", "T", "C", "H">>
      [] o = "OpNotRegexpMatch" ->
            <<"N", "O", "T", " ", "R", "E", "G", "E", "X", "P", "_", "M", "A", "T", "C", "H">>
      [] OTHER -> <<"U", "N", "K", "N", "O", "W", "N">>

\* DateRange.String ranges over the map for a key of value d; the table has one
\* key for each value, so the order of the range does not show.
DateRangeString(d) ==
    IF \E k \in DOMAIN DateRangeKeywords : DateRangeKeywords[k] = d
    THEN CHOOSE k \in DOMAIN DateRangeKeywords : DateRangeKeywords[k] = d
    ELSE <<"C", "U", "S", "T", "O", "M">>

\* fmt's %d of an int n >= 0.
RECURSIVE Itoa(_)
Itoa(n) ==
    LET d == <<"0", "1", "2", "3", "4", "5", "6", "7", "8", "9">>[(n % 10) + 1]
    IN  IF n < 10 THEN <<d>> ELSE Append(Itoa(n \div 10), d)

\* The exponent of fmt's %e form: a sign and two digits or more.
ExponentString(e) ==
    LET a == IF e < 0 THEN 0 - e ELSE e
    IN  <<"e", IF e < 0 THEN "-" ELSE "+">> \o (IF a < 10 THEN <<"0">> ELSE <<>>) \o Itoa(a)

\* fmt's %v of a float64, which is strconv's 'g' format with the shortest
\* digits: the %e form when the decimal exponent is below -4 or is 6 or more.
FormatFloat(n) ==
    LET sign == IF n.neg THEN <<"-">> ELSE <<>>
        lead == Len(n.frac) - Len(StripLeadingZeros(n.frac))
        exp == IF n.int /= <<>> THEN Len(n.int) - 1 ELSE 0 - (lead + 1)
        mant == StripTrailingZeros(StripLeadingZeros(n.int \o n.frac))
    IN  IF n.int = <<>> /\ n.frac = <<>>
        THEN sign \o <<"0">>
        ELSE IF exp < 0 - 4 \/ exp >= 6
        THEN sign \o <<mant[1]>>
                  \o (IF Len(mant) > 1 THEN <<".">> \o Tail(mant) ELSE <<>>)
                  \o ExponentString(exp)
        ELSE sign \o (IF n.int = <<>> THEN <<"0">> ELSE n.int)
                  \o (IF n.frac = <<>> THEN <<>> ELSE <<".">> \o n.frac)

\* Value.String
ValueString(v) ==
    CASE v.Type = "ValueString" -> <<"'">> \o v.Str \o <<"'">>
      [] v.Type = "ValueNumber" -> FormatFloat(v.Number)
      [] v.Type = "ValueList" -> <<"(">> \o Join(v.List, <<",", " ">>) \o <<")">>
      [] v.Type = "ValueDateRange" -> DateRangeString(v.DateRange)
      [] v.Type = "ValueNull" -> <<"N", "U", "L", "L">>
      [] OTHER -> <<>>

ConditionString(c) ==
    c.Field \o <<" ">> \o OperatorString(c.Operator) \o <<" ">> \o ValueString(c.Value)

OrderingString(o) ==
    o.Field \o (IF o.Direction = "Desc" THEN <<" ", "D", "E", "S", "C">> ELSE <<>>)

\* The orders in which a range over the map m may visit its keys: Go leaves
\* the order of a map range unspecified, and it changes from run to run.
KeyOrders(m) ==
    {o \in [1..Cardinality(DOMAIN m) -> DOMAIN m] :
        \A i, j \in DOMAIN o : i /= j => o[i] /= o[j]}

\* Query.String, the range over q.Parameters visiting the keys in keyOrder.
QueryString(q, keyOrder) ==
    <<"S", "E", "L", "E", "C", "T", " ">>
    \o Join([i \in DOMAIN q.Select |-> q.Select[i].Name], <<",", " ">>)
    \o <<" ", "F", "R", "O", "M", " ">> \o q.From
    \o (IF Len(q.Where) > 0
        THEN <<" ", "W", "H", "E", "R", "E", " ">>
             \o Join([i \in DOMAIN q.Where |-> ConditionString(q.Where[i])],
                     <<" ", "A", "N", "D", " ">>)
        ELSE <<>>)
    \o (IF Len(q.OrderBy) > 0
        THEN <<" ", "O", "R", "D", "E", "R", " ", "B", "Y", " ">>
             \o Join([i \in DOMAIN q.OrderBy |-> OrderingString(q.OrderBy[i])], <<",", " ">>)
        ELSE <<>>)
    \o (IF q.Limit > 0 THEN <<" ", "L", "I", "M", "I", "T", " ">> \o Itoa(q.Limit) ELSE <<>>)
    \o (IF Cardinality(DOMAIN q.Parameters) > 0
        THEN <<" ", "P", "A", "R", "A", "M", "E", "T", "E", "R", "S", " ">>
             \o Join([i \in DOMAIN keyOrder |->
                         keyOrder[i] \o <<" ", "=", " ">> \o q.Parameters[keyOrder[i]]],
                     <<",", " ">>)
        ELSE <<>>)

(***************************************************************************)
(* The validator.  A Validator is the record of its two flags.  A rule     *)
(* gives NoError or its ValidationError.                                   *)
(***************************************************************************)
\* NewValidator with AllowUnknownResources left at false.
NewValidatorStrict == [AllowUnknownResources |-> FALSE, RequireMetricDateContext |-> TRUE]

NewValidator == [AllowUnknownResources |-> TRUE, RequireMetricDateContext |-> TRUE]

FROM == <<"F", "R", "O", "M">>

segmentsDate == <<"s", "e", "g", "m", "e", "n", "t", "s", ".", "d", "a", "t", "e">>

metricsPrefix == <<"m", "e", "t", "r", "i", "c", "s", ".">>

\* datePattern.MatchString: ^\d{4}-\d{2}-\d{2}$
datePatternMatch(d) ==
    /\ Len(d) = 10
    /\ \A i \in {1, 2, 3, 4, 6, 7, 9, 10} : isDigit(d[i])
    /\ d[5] = "-"
    /\ d[8] = "-"

\* isDateRangeKeyword comparing the word as it is written.
isDateRangeKeywordExact(s) == s \in DOMAIN DateRangeKeywords

isDateRangeKeyword(s) == ToUpper(s) \in DOMAIN DateRangeKeywords

validateFieldName(name) ==
    IF name = <<>>
    THEN ValidationError(<<"field name cannot be empty">>, <<>>)
    ELSE NoError

\* The loop of validateSelect over the fields from the i-th on.
RECURSIVE validateSelectLoop(_, _)
validateSelectLoop(fields, i) ==
    IF i > Len(fields) THEN NoError
    ELSE IF validateFieldName(fields[i].Name).Kind /= "nil" THEN validateFieldName(fields[i].Name)
    ELSE validateSelectLoop(fields, i + 1)

validateSelect(v, q) ==
    IF Len(q.Select) = 0
    THEN ValidationError(<<"SELECT must contain at least one field">>, <<>>)
    ELSE validateSelectLoop(q.Select, 1)

\* validateFrom looking the resource up whatever the flag says.
validateFromKnownOnly(v, q) ==
    IF q.From = <<>>
    THEN ValidationError(<<"FROM clause is required">>, <<>>)
    ELSE IF q.From \notin KnownResources
    THEN ValidationError(<<"unknown resource", q.From>>, FROM)
    ELSE NoError

validateFrom(v, q) ==
    IF q.From = <<>>
    THEN ValidationError(<<"FROM clause is required">>, <<>>)
    ELSE IF ~v.AllowUnknownResources /\ q.From \notin KnownResources
    THEN ValidationError(<<"unknown resource", q.From>>, FROM)
    ELSE NoError

\* The first element of the BETWEEN list that is no date and no date-range keyword.
RECURSIVE validateBetweenDates(_, _, _)
validateBetweenDates(cond, list, i) ==
    IF i > Len(list) THEN NoError
    ELSE IF ~datePatternMatch(list[i]) /\ ~isDateRangeKeyword(list[i])
    THEN ValidationError(<<"invalid date format (expected YYYY-MM-DD)", list[i]>>, cond.Field)
    ELSE validateBetweenDates(cond, list, i + 1)

\* The body of validateWhere's loop.
validateCondition(cond) ==
    IF validateFieldName(cond.Field).Kind /= "nil"
    THEN validateFieldName(cond.Field)
    ELSE IF cond.Operator = "OpDuring" /\ cond.Value.Type /= "ValueDateRange"
    THEN ValidationError(<<"DURING requires a date range keyword">>, cond.Field)
    ELSE IF cond.Operator = "OpBetween"
    THEN IF cond.Value.Type /= "ValueList" \/ Len(cond.Value.List) /= 2
         THEN ValidationError(<<"BETWEEN requires two values">>, cond.Field)
         ELSE validateBetweenDates(cond, cond.Value.List, 1)
    ELSE NoError

\* The loop of validateWhere over the conditions from the i-th on.
RECURSIVE validateWhereLoop(_, _)
validateWhereLoop(where, i) ==
    IF i > Len(where) THEN NoError
    ELSE IF validateCondition(where[i]).Kind /= "nil" THEN validateCondition(where[i])
    ELSE validateWhereLoop(where, i + 1)

validateWhere(v, q) == validateWhereLoop(q.Where, 1)

validateLimit(v, q) ==
    IF q.Limit < 0
    THEN ValidationError(<<"LIMIT must be non-negative">>, <<>>)
    ELSE NoError

\* The loop of validateSingleDayResource from the i-th condition on: the
\* outcome "next" stands for falling out of the loop's body.
RECURSIVE singleDayLoop(_, _)
singleDayLoop(where, i) ==
    IF i > Len(where)
    THEN ValidationError(
             <<"click_view requires segments.date in WHERE clause with single-day range">>,
             FROM)
    ELSE LET cond == where[i]
         IN  IF cond.Field /= segmentsDate THEN singleDayLoop(where, i + 1)
             ELSE IF cond.Operator = "OpDuring"
             THEN IF cond.Value.DateRange \in {DateRangeToday, DateRangeYesterday}
                  THEN NoError
                  ELSE ValidationError(
                           <<"click_view requires single-day date range (TODAY or YESTERDAY)">>,
                           segmentsDate)
             ELSE IF cond.Operator = "OpEq" THEN NoError
             ELSE IF cond.Operator = "OpBetween"
             THEN IF Len(cond.Value.List) = 2 /\ cond.Value.List[1] = cond.Value.List[2]
                  THEN NoError
                  ELSE ValidationError(<<"click_view requires single-day date range">>,
                                       segmentsDate)
             ELSE singleDayLoop(where, i + 1)

validateSingleDayResource(v, q) ==
    IF q.From \notin SingleDayResources THEN NoError ELSE singleDayLoop(q.Where, 1)

\* validateMetricDateContext looking for segments.date in SELECT only.
validateMetricDateContextSelectOnly(v, q) ==
    IF ~v.RequireMetricDateContext THEN NoError
    ELSE IF ~\E i \in DOMAIN q.Select : HasPrefix(q.Select[i].Name, metricsPrefix) THEN NoError
    ELSE IF ~\E i \in DOMAIN q.Select : q.Select[i].Name = segmentsDate
    THEN ValidationError(
             <<"metrics require date context (segments.date in SELECT or WHERE)">>, <<>>)
    ELSE NoError

validateMetricDateContext(v, q) ==
    LET hasMetrics == \E i \in DOMAIN q.Select : HasPrefix(q.Select[i].Name, metricsPrefix)
        hasDateContext ==
            \/ \E i \in DOMAIN q.Select : q.Select[i].Name = segmentsDate
            \/ \E i \in DOMAIN q.Where : q.Where[i].Field = segmentsDate
    IN  IF ~v.RequireMetricDateContext THEN NoError
        ELSE IF ~hasMetrics THEN NoError
        ELSE IF ~hasDateContext
        THEN ValidationError(
                 <<"metrics require date context (segments.date in SELECT or WHERE)">>, <<>>)
        ELSE NoError

\* Validator.Validate
Validate(v, q) ==
    IF validateSelect(v, q).Kind /= "nil" THEN validateSelect(v, q)
    ELSE IF validateFrom(v, q).Kind /= "nil" THEN validateFrom(v, q)
    ELSE IF validateWhere(v, q).Kind /= "nil" THEN validateWhere(v, q)
    ELSE IF validateLimit(v, q).Kind /= "nil" THEN validateLimit(v, q)
    ELSE IF validateSingleDayResource(v, q).Kind /= "nil" THEN validateSingleDayResource(v, q)
    ELSE IF validateMetricDateContext(v, q).Kind /= "nil" THEN validateMetricDateContext(v, q)
    ELSE NoError

\* v.Validate(q) leaving the Limit it rejects at zero.
ValidateOnResetting(v, q) ==
    [v |-> v, q |-> IF q.Limit < 0 THEN [q EXCEPT !.Limit = 0] ELSE q, err |-> Validate(v, q)]

\* v.Validate(q) on the pointers v and q: the Validator and the Query after
\* the call, and the error returned.
ValidateOn(v, q) == [v |-> v, q |-> q, err |-> Validate(v, q)]

\* ValidateQuery after Validate has run on the parsed query.
validateResult(q, err) ==
    IF err.Kind /= "nil" THEN [query |-> NilQuery, err |-> err] ELSE [query |-> q, err |-> NoError]

\* ValidateQuery after Parse has run.
validateParsed(parsed) ==
    IF parsed.err.Kind /= "nil"
    THEN [query |-> NilQuery, err |-> parsed.err]
    ELSE validateResult(parsed.query, Validate(NewValidator, parsed.query))

ValidateQuery(input) == validateParsed(Parse(input))

(***************************************************************************)
(* The texts the operations are run on.  A text is a SELECT part, a FROM   *)
(* part and the four optional clauses, each drawn from the variants below: *)
(* the variants the grammar accepts, and broken ones.                      *)
(***************************************************************************)
SelectParts ==
     \* SELECT campaign.id
    {<<"S", "E", "L", "E", "C", "T", " ", "c", "a", "m", "p", "a", "i", "g", "n", ".", "i", "d">>,
     \* SELECT a.b, c
     <<"S", "E", "L", "E", "C", "T", " ", "a", ".", "b", ",", " ", "c">>,
     \* SELECT metrics.clicks
     <<"S", "E", "L", "E", "C", "T", " ", "m", "e", "t", "r", "i", "c", "s", ".", "c", "l", "i", "c", "k", "s">>,
     \* SELECT metrics.clicks, segments.date
     <<"S", "E", "L", "E", "C", "T", " ", "m", "e", "t", "r", "i", "c", "s", ".", "c", "l", "i", "c", "k", "s", ",", " ", "s", "e", "g", "m", "e", "n", "t", "s", ".", "d", "a", "t", "e">>,
     \* select  A_1.b2.c\n
     <<"s", "e", "l", "e", "c", "t", " ", " ", "A", "_", "1", ".", "b", "2", ".", "c", "\n">>,
     \* SELECT ORDER
     <<"S", "E", "L", "E", "C", "T", " ", "O", "R", "D", "E", "R">>,
     \* SELECT b, a, b
     <<"S", "E", "L", "E", "C", "T", " ", "b", ",", " ", "a", ",", " ", "b">>}

BrokenSelectParts ==
     \* (the empty text)
    {<<>>,
     \* SELECT
     <<"S", "E", "L", "E", "C", "T">>,
     \* SELECT a.
     <<"S", "E", "L", "E", "C", "T", " ", "a", ".">>,
     \* SELECT a,
     <<"S", "E", "L", "E", "C", "T", " ", "a", ",">>,
     \* SELECT a..b
     <<"S", "E", "L", "E", "C", "T", " ", "a", ".", ".", "b">>,
     \* SELECT .a
     <<"S", "E", "L", "E", "C", "T", " ", ".", "a">>,
     \* SELECT 'a'
     <<"S", "E", "L", "E", "C", "T", " ", "'", "a", "'">>,
     \* SELECT a b
     <<"S", "E", "L", "E", "C", "T", " ", "a", " ", "b">>,
     \* FROM b SELECT a
     <<"F", "R", "O", "M", " ", "b", " ", "S", "E", "L", "E", "C", "T", " ", "a">>}

FromParts ==
     \*  FROM campaign
    {<<" ", "F", "R", "O", "M", " ", "c", "a", "m", "p", "a", "i", "g", "n">>,
     \*  FROM click_view
     <<" ", "F", "R", "O", "M", " ", "c", "l", "i", "c", "k", "_", "v", "i", "e", "w">>,
     \*  from\tnew_resource_v99
     <<" ", "f", "r", "o", "m", "\t", "n", "e", "w", "_", "r", "e", "s", "o", "u", "r", "c", "e", "_", "v", "9", "9">>}

BrokenFromParts ==
     \* (the empty text)
    {<<>>,
     \*  FROM
     <<" ", "F", "R", "O", "M">>,
     \*  FROM 'campaign'
     <<" ", "F", "R", "O", "M", " ", "'", "c", "a", "m", "p", "a", "i", "g", "n", "'">>,
     \*  FROM campaign.id
     <<" ", "F", "R", "O", "M", " ", "c", "a", "m", "p", "a", "i", "g", "n", ".", "i", "d">>,
     \*  FROM 5
     <<" ", "F", "R", "O", "M", " ", "5">>,
     \*  FROM a, b
     <<" ", "F", "R", "O", "M", " ", "a", ",", " ", "b">>}

WhereParts ==
     \*  WHERE x = 1
    {<<" ", "W", "H", "E", "R", "E", " ", "x", " ", "=", " ", "1">>,
     \*  WHERE x = -1.50
     <<" ", "W", "H", "E", "R", "E", " ", "x", " ", "=", " ", "-", "1", ".", "5", "0">>,
     \*  WHERE x = 'a b'
     <<" ", "W", "H", "E", "R", "E", " ", "x", " ", "=", " ", "'", "a", " ", "b", "'">>,
     \*  WHERE x = ENABLED
     <<" ", "W", "H", "E", "R", "E", " ", "x", " ", "=", " ", "E", "N", "A", "B", "L", "E", "D">>,
     \*  WHERE x != "q"
     <<" ", "W", "H", "E", "R", "E", " ", "x", " ", "!", "=", " ", "\"", "q", "\"">>,
     \*  WHERE x > 1000000
     <<" ", "W", "H", "E", "R", "E", " ", "x", " ", ">", " ", "1", "0", "0", "0", "0", "0", "0">>,
     \*  WHERE x >= 0.00001
     <<" ", "W", "H", "E", "R", "E", " ", "x", " ", ">", "=", " ", "0", ".", "0", "0", "0", "0", "1">>,
     \*  WHERE x < 5.
     <<" ", "W", "H", "E", "R", "E", " ", "x", " ", "<", " ", "5", ".">>,
     \*  WHERE x <= 0.5
     <<" ", "W", "H", "E", "R", "E", " ", "x", " ", "<", "=", " ", "0", ".", "5">>,
     \*  WHERE x = 'it\'s'
     <<" ", "W", "H", "E", "R", "E", " ", "x", " ", "=", " ", "'", "i", "t", "\\", "'", "s", "'">>,
     \*  WHERE x = ''
     <<" ", "W", "H", "E", "R", "E", " ", "x", " ", "=", " ", "'", "'">>,
     \*  WHERE x IN ('a', 'b')
     <<" ", "W", "H", "E", "R", "E", " ", "x", " ", "I", "N", " ", "(", "'", "a", "'", ",", " ", "'", "b", "'", ")">>,
     \*  WHERE x IN (a)
     <<" ", "W", "H", "E", "R", "E", " ", "x", " ", "I", "N", " ", "(", "a", ")">>,
     \*  WHERE x IN ('a b')
     <<" ", "W", "H", "E", "R", "E", " ", "x", " ", "I", "N", " ", "(", "'", "a", " ", "b", "'", ")">>,
     \*  WHERE x NOT IN (1, 2)
     <<" ", "W", "H", "E", "R", "E", " ", "x", " ", "N", "O", "T", " ", "I", "N", " ", "(", "1", ",", " ", "2", ")">>,
     \*  WHERE x LIKE '%a%'
     <<" ", "W", "H", "E", "R", "E", " ", "x", " ", "L", "I", "K", "E", " ", "'", "%", "a", "%", "'">>,
     \*  WHERE x NOT LIKE 'a'
     <<" ", "W", "H", "E", "R", "E", " ", "x", " ", "N", "O", "T", " ", "L", "I", "K", "E", " ", "'", "a", "'">>,
     \*  WHERE x REGEXP_MATCH 'a.*'
     <<" ", "W", "H", "E", "R", "E", " ", "x", " ", "R", "E", "G", "E", "X", "P", "_", "M", "A", "T", "C", "H", " ", "'", "a", ".", "*", "'">>,
     \*  WHERE x NOT REGEXP_MATCH 'a'
     <<" ", "W", "H", "E", "R", "E", " ", "x", " ", "N", "O", "T", " ", "R", "E", "G", "E", "X", "P", "_", "M", "A", "T", "C", "H", " ", "'", "a", "'">>,
     \*  WHERE x CONTAINS ANY ('a')
     <<" ", "W", "H", "E", "R", "E", " ", "x", " ", "C", "O", "N", "T", "A", "I", "N", "S", " ", "A", "N", "Y", " ", "(", "'", "a", "'", ")">>,
     \*  WHERE x CONTAINS ALL (a, b)
     <<" ", "W", "H", "E", "R", "E", " ", "x", " ", "C", "O", "N", "T", "A", "I", "N", "S", " ", "A", "L", "L", " ", "(", "a", ",", " ", "b", ")">>,
     \*  WHERE x CONTAINS NONE (a)
     <<" ", "W", "H", "E", "R", "E", " ", "x", " ", "C", "O", "N", "T", "A", "I", "N", "S", " ", "N", "O", "N", "E", " ", "(", "a", ")">>,
     \*  WHERE x IS NULL
     <<" ", "W", "H", "E", "R", "E", " ", "x", " ", "I", "S", " ", "N", "U", "L", "L">>,
     \*  WHERE x IS NOT NULL
     <<" ", "W", "H", "E", "R", "E", " ", "x", " ", "I", "S", " ", "N", "O", "T", " ", "N", "U", "L", "L">>,
     \*  WHERE segments.date DURING TODAY
     <<" ", "W", "H", "E", "R", "E", " ", "s", "e", "g", "m", "e", "n", "t", "s", ".", "d", "a", "t", "e", " ", "D", "U", "R", "I", "N", "G", " ", "T", "O", "D", "A", "Y">>,
     \*  WHERE segments.date DURING last_7_days
     <<" ", "W", "H", "E", "R", "E", " ", "s", "e", "g", "m", "e", "n", "t", "s", ".", "d", "a", "t", "e", " ", "D", "U", "R", "I", "N", "G", " ", "l", "a", "s", "t", "_", "7", "_", "d", "a", "y", "s">>,
     \*  WHERE segments.date BETWEEN '2026-01-01' AND '2026-01-31'
     <<" ", "W", "H", "E", "R", "E", " ", "s", "e", "g", "m", "e", "n", "t", "s", ".", "d", "a", "t", "e", " ", "B", "E", "T", "W", "E", "E", "N", " ", "'", "2", "0", "2", "6", "-", "0", "1", "-", "0", "1", "'", " ", "A", "N", "D", " ", "'", "2", "0", "2", "6", "-", "0", "1", "-", "3", "1", "'">>,
     \*  WHERE segments.date BETWEEN 1 AND 1
     <<" ", "W", "H", "E", "R", "E", " ", "s", "e", "g", "m", "e", "n", "t", "s", ".", "d", "a", "t", "e", " ", "B", "E", "T", "W", "E", "E", "N", " ", "1", " ", "A", "N", "D", " ", "1">>,
     \*  WHERE segments.date = '2026-02-27'
     <<" ", "W", "H", "E", "R", "E", " ", "s", "e", "g", "m", "e", "n", "t", "s", ".", "d", "a", "t", "e", " ", "=", " ", "'", "2", "0", "2", "6", "-", "0", "2", "-", "2", "7", "'">>,
     \*  WHERE segments.date > '2026-02-27'
     <<" ", "W", "H", "E", "R", "E", " ", "s", "e", "g", "m", "e", "n", "t", "s", ".", "d", "a", "t", "e", " ", ">", " ", "'", "2", "0", "2", "6", "-", "0", "2", "-", "2", "7", "'">>,
     \*  WHERE x = 1 AND y = 2
     <<" ", "W", "H", "E", "R", "E", " ", "x", " ", "=", " ", "1", " ", "A", "N", "D", " ", "y", " ", "=", " ", "2">>,
     \*  WHERE x BETWEEN 1 AND 2 AND y = 3
     <<" ", "W", "H", "E", "R", "E", " ", "x", " ", "B", "E", "T", "W", "E", "E", "N", " ", "1", " ", "A", "N", "D", " ", "2", " ", "A", "N", "D", " ", "y", " ", "=", " ", "3">>,
     \*  WHERE y = 2 AND x = 1 AND y = 2
     <<" ", "W", "H", "E", "R", "E", " ", "y", " ", "=", " ", "2", " ", "A", "N", "D", " ", "x", " ", "=", " ", "1", " ", "A", "N", "D", " ", "y", " ", "=", " ", "2">>,
     \*  WHERE segments.date DURING LAST_7_DAYS AND segments.date = '2026-02-27'
     <<" ", "W", "H", "E", "R", "E", " ", "s", "e", "g", "m", "e", "n", "t", "s", ".", "d", "a", "t", "e", " ", "D", "U", "R", "I", "N", "G", " ", "L", "A", "S", "T", "_", "7", "_", "D", "A", "Y", "S", " ", "A", "N", "D", " ", "s", "e", "g", "m", "e", "n", "t", "s", ".", "d", "a", "t", "e", " ", "=", " ", "'", "2", "0", "2", "6", "-", "0", "2", "-", "2", "7", "'">>}

BrokenWhereParts ==
     \*  WHERE 
    {<<" ", "W", "H", "E", "R", "E", " ">>,
     \*  WHERE x
     <<" ", "W", "H", "E", "R", "E", " ", "x">>,
     \*  WHERE x 5
     <<" ", "W", "H", "E", "R", "E", " ", "x", " ", "5">>,
     \*  WHERE x = 
     <<" ", "W", "H", "E", "R", "E", " ", "x", " ", "=", " ">>,
     \*  WHERE x <= -
     <<" ", "W", "H", "E", "R", "E", " ", "x", " ", "<", "=", " ", "-">>,
     \*  WHERE x = 1 OR y = 2
     <<" ", "W", "H", "E", "R", "E", " ", "x", " ", "=", " ", "1", " ", "O", "R", " ", "y", " ", "=", " ", "2">>,
     \*  WHERE x = 1 AND
     <<" ", "W", "H", "E", "R", "E", " ", "x", " ", "=", " ", "1", " ", "A", "N", "D">>,
     \*  WHERE x = LIMIT
     <<" ", "W", "H", "E", "R", "E", " ", "x", " ", "=", " ", "L", "I", "M", "I", "T">>,
     \*  WHERE x = (1)
     <<" ", "W", "H", "E", "R", "E", " ", "x", " ", "=", " ", "(", "1", ")">>,
     \*  WHERE x ! 1
     <<" ", "W", "H", "E", "R", "E", " ", "x", " ", "!", " ", "1">>,
     \*  WHERE x IN ()
     <<" ", "W", "H", "E", "R", "E", " ", "x", " ", "I", "N", " ", "(", ")">>,
     \*  WHERE x IN (1, 2
     <<" ", "W", "H", "E", "R", "E", " ", "x", " ", "I", "N", " ", "(", "1", ",", " ", "2">>,
     \*  WHERE x IN 1
     <<" ", "W", "H", "E", "R", "E", " ", "x", " ", "I", "N", " ", "1">>,
     \*  WHERE x IN (1,)
     <<" ", "W", "H", "E", "R", "E", " ", "x", " ", "I", "N", " ", "(", "1", ",", ")">>,
     \*  WHERE x NOT 5
     <<" ", "W", "H", "E", "R", "E", " ", "x", " ", "N", "O", "T", " ", "5">>,
     \*  WHERE x CONTAINS (a)
     <<" ", "W", "H", "E", "R", "E", " ", "x", " ", "C", "O", "N", "T", "A", "I", "N", "S", " ", "(", "a", ")">>,
     \*  WHERE x IS 5
     <<" ", "W", "H", "E", "R", "E", " ", "x", " ", "I", "S", " ", "5">>,
     \*  WHERE x IS NOT 5
     <<" ", "W", "H", "E", "R", "E", " ", "x", " ", "I", "S", " ", "N", "O", "T", " ", "5">>,
     \*  WHERE segments.date DURING LAST_99_DAYS
     <<" ", "W", "H", "E", "R", "E", " ", "s", "e", "g", "m", "e", "n", "t", "s", ".", "d", "a", "t", "e", " ", "D", "U", "R", "I", "N", "G", " ", "L", "A", "S", "T", "_", "9", "9", "_", "D", "A", "Y", "S">>,
     \*  WHERE segments.date DURING 'TODAY'
     <<" ", "W", "H", "E", "R", "E", " ", "s", "e", "g", "m", "e", "n", "t", "s", ".", "d", "a", "t", "e", " ", "D", "U", "R", "I", "N", "G", " ", "'", "T", "O", "D", "A", "Y", "'">>,
     \*  WHERE segments.date DURING
     <<" ", "W", "H", "E", "R", "E", " ", "s", "e", "g", "m", "e", "n", "t", "s", ".", "d", "a", "t", "e", " ", "D", "U", "R", "I", "N", "G">>,
     \*  WHERE x BETWEEN 1
     <<" ", "W", "H", "E", "R", "E", " ", "x", " ", "B", "E", "T", "W", "E", "E", "N", " ", "1">>,
     \*  WHERE x BETWEEN 1 AND
     <<" ", "W", "H", "E", "R", "E", " ", "x", " ", "B", "E", "T", "W", "E", "E", "N", " ", "1", " ", "A", "N", "D">>,
     \*  WHERE x BETWEEN 1, 2
     <<" ", "W", "H", "E", "R", "E", " ", "x", " ", "B", "E", "T", "W", "E", "E", "N", " ", "1", ",", " ", "2">>,
     \*  WHERE x BETWEEN (1, 2)
     <<" ", "W", "H", "E", "R", "E", " ", "x", " ", "B", "E", "T", "W", "E", "E", "N", " ", "(", "1", ",", " ", "2", ")">>,
     \*  WHERE x = 'a
     <<" ", "W", "H", "E", "R", "E", " ", "x", " ", "=", " ", "'", "a">>,
     \*  WHERE x = -- c
     <<" ", "W", "H", "E", "R", "E", " ", "x", " ", "=", " ", "-", "-", " ", "c">>}

OrderByParts ==
     \*  ORDER BY a
    {<<" ", "O", "R", "D", "E", "R", " ", "B", "Y", " ", "a">>,
     \*  ORDER BY a.b DESC
     <<" ", "O", "R", "D", "E", "R", " ", "B", "Y", " ", "a", ".", "b", " ", "D", "E", "S", "C">>,
     \*  order   by a ASC, b DESC
     <<" ", "o", "r", "d", "e", "r", " ", " ", " ", "b", "y", " ", "a", " ", "A", "S", "C", ",", " ", "b", " ", "D", "E", "S", "C">>,
     \*  ORDER BY b DESC, a, b
     <<" ", "O", "R", "D", "E", "R", " ", "B", "Y", " ", "b", " ", "D", "E", "S", "C", ",", " ", "a", ",", " ", "b">>}

BrokenOrderByParts ==
     \*  ORDER BY
    {<<" ", "O", "R", "D", "E", "R", " ", "B", "Y">>,
     \*  ORDER a
     <<" ", "O", "R", "D", "E", "R", " ", "a">>,
     \*  ORDER BY a DESC ASC
     <<" ", "O", "R", "D", "E", "R", " ", "B", "Y", " ", "a", " ", "D", "E", "S", "C", " ", "A", "S", "C">>,
     \*  ORDER BY a,
     <<" ", "O", "R", "D", "E", "R", " ", "B", "Y", " ", "a", ",">>,
     \*  ORDER BY a ORDER BY b
     <<" ", "O", "R", "D", "E", "R", " ", "B", "Y", " ", "a", " ", "O", "R", "D", "E", "R", " ", "B", "Y", " ", "b">>}

LimitParts ==
     \*  LIMIT 10
    {<<" ", "L", "I", "M", "I", "T", " ", "1", "0">>,
     \*  LIMIT 1
     <<" ", "L", "I", "M", "I", "T", " ", "1">>,
     \*  limit 007
     <<" ", "l", "i", "m", "i", "t", " ", "0", "0", "7">>}

BrokenLimitParts ==
     \*  LIMIT 0
    {<<" ", "L", "I", "M", "I", "T", " ", "0">>,
     \*  LIMIT -1
     <<" ", "L", "I", "M", "I", "T", " ", "-", "1">>,
     \*  LIMIT 1.5
     <<" ", "L", "I", "M", "I", "T", " ", "1", ".", "5">>,
     \*  LIMIT x
     <<" ", "L", "I", "M", "I", "T", " ", "x">>,
     \*  LIMIT
     <<" ", "L", "I", "M", "I", "T">>,
     \*  LIMIT -
     <<" ", "L", "I", "M", "I", "T", " ", "-">>,
     \*  LIMIT 5.
     <<" ", "L", "I", "M", "I", "T", " ", "5", ".">>,
     \*  LIMIT -0
     <<" ", "L", "I", "M", "I", "T", " ", "-", "0">>,
     \*  LIMIT '5'
     <<" ", "L", "I", "M", "I", "T", " ", "'", "5", "'">>,
     \*  LIMIT 00
     <<" ", "L", "I", "M", "I", "T", " ", "0", "0">>,
     \*  LIMIT 1 LIMIT 2
     <<" ", "L", "I", "M", "I", "T", " ", "1", " ", "L", "I", "M", "I", "T", " ", "2">>,
     \*  LIMIT 5 WHERE x = 1
     <<" ", "L", "I", "M", "I", "T", " ", "5", " ", "W", "H", "E", "R", "E", " ", "x", " ", "=", " ", "1">>,
     \*  LIMIT 99999999999999999999
     <<" ", "L", "I", "M", "I", "T", " ", "9", "9", "9", "9", "9", "9", "9", "9", "9", "9", "9", "9", "9", "9", "9", "9", "9", "9", "9", "9">>,
     \*  LIMIT -99999999999999999999
     <<" ", "L", "I", "M", "I", "T", " ", "-", "9", "9", "9", "9", "9", "9", "9", "9", "9", "9", "9", "9", "9", "9", "9", "9", "9", "9", "9", "9">>}

ParametersParts ==
     \*  PARAMETERS k = v
    {<<" ", "P", "A", "R", "A", "M", "E", "T", "E", "R", "S", " ", "k", " ", "=", " ", "v">>,
     \*  PARAMETERS include_drafts = true, k = 1
     <<" ", "P", "A", "R", "A", "M", "E", "T", "E", "R", "S", " ", "i", "n", "c", "l", "u", "d", "e", "_", "d", "r", "a", "f", "t", "s", " ", "=", " ", "t", "r", "u", "e", ",", " ", "k", " ", "=", " ", "1">>,
     \*  PARAMETERS k = 'v w'
     <<" ", "P", "A", "R", "A", "M", "E", "T", "E", "R", "S", " ", "k", " ", "=", " ", "'", "v", " ", "w", "'">>,
     \*  PARAMETERS k = 1, k = 2
     <<" ", "P", "A", "R", "A", "M", "E", "T", "E", "R", "S", " ", "k", " ", "=", " ", "1", ",", " ", "k", " ", "=", " ", "2">>}

BrokenParametersParts ==
     \*  PARAMETERS
    {<<" ", "P", "A", "R", "A", "M", "E", "T", "E", "R", "S">>,
     \*  PARAMETERS k
     <<" ", "P", "A", "R", "A", "M", "E", "T", "E", "R", "S", " ", "k">>,
     \*  PARAMETERS k =
     <<" ", "P", "A", "R", "A", "M", "E", "T", "E", "R", "S", " ", "k", " ", "=">>,
     \*  PARAMETERS k = 1,
     <<" ", "P", "A", "R", "A", "M", "E", "T", "E", "R", "S", " ", "k", " ", "=", " ", "1", ",">>,
     \*  PARAMETERS 'k' = 1
     <<" ", "P", "A", "R", "A", "M", "E", "T", "E", "R", "S", " ", "'", "k", "'", " ", "=", " ", "1">>,
     \*  x
     <<" ", "x">>,
     \*  PARAMETERS k = 1 LIMIT 5
     <<" ", "P", "A", "R", "A", "M", "E", "T", "E", "R", "S", " ", "k", " ", "=", " ", "1", " ", "L", "I", "M", "I", "T", " ", "5">>}

\* The text every part of which is at its default.
DefaultParts ==
    <<<<"S", "E", "L", "E", "C", "T", " ", "c", "a", "m", "p", "a", "i", "g", "n", ".", "i", "d">>,
      <<" ", "F", "R", "O", "M", " ", "c", "a", "m", "p", "a", "i", "g", "n">>,
      <<>>, <<>>, <<>>, <<>>>>

\* How many parts of a text differ from the default at once.
MaxVaried == 2

Concat(parts) == Join(parts, <<>>)

ValidParts ==
    <<SelectParts, FromParts, WhereParts, OrderByParts, LimitParts, ParametersParts>>

\* The default with at most n parts replaced by a valid variant.
RECURSIVE VariedBy(_)
VariedBy(n) ==
    IF n = 0 THEN {DefaultParts}
    ELSE LET less == VariedBy(n - 1)
         IN  less \cup UNION {{[p EXCEPT ![i] = x] : x \in ValidParts[i], p \in less} : i \in 1..6}

ValidTexts == {Concat(parts) : parts \in VariedBy(MaxVaried)}

BrokenParts ==
    <<BrokenSelectParts, BrokenFromParts, BrokenWhereParts, BrokenOrderByParts,
      BrokenLimitParts, BrokenParametersParts>>

\* The default text with one part replaced by a broken variant.
BrokenTexts ==
    UNION {{Concat([DefaultParts EXCEPT ![i] = x]) : x \in BrokenParts[i]} : i \in 1..6}

\* The empty text and a text of whitespace only.
EdgeTexts == {<<>>, <<" ", "\n", " ">>}

Texts == ValidTexts \cup BrokenTexts \cup EdgeTexts

(***************************************************************************)
(* The texts the lexer alone is run on: every byte sequence of at most     *)
(* MaxLexLen bytes over LexAlphabet.                                       *)
(***************************************************************************)
MaxLexLen == 3

LexAlphabet == {"-", "1", ".", "a", " ", "\n", "'", "\"", "\\", "!", "="}

LexInputs == UNION {[1..n -> LexAlphabet] : n \in 0..MaxLexLen}

\* Texts for the lexer with the longer tokens: string literals of several
\* lines, the two words of ORDER BY, keywords, the operators, and letters
\* outside ASCII.
LexTexts ==
     \* 'a\nb' order\n by x
    {<<"'", "a", "\n", "b", "'", " ", "o", "r", "d", "e", "r", "\n", " ", "b", "y", " ", "x">>,
     \* ORDER BY a
     <<"O", "R", "D", "E", "R", " ", "B", "Y", " ", "a">>,
     \* ORDER a
     <<"O", "R", "D", "E", "R", " ", "a">>,
     \* order bytes
     <<"o", "r", "d", "e", "r", " ", "b", "y", "t", "e", "s">>,
     \* a\t!= -1.5\r\n(b,c)
     <<"a", "\t", "!", "=", " ", "-", "1", ".", "5", "\r", "\n", "(", "b", ",", "c", ")">>,
     \* x >= 'it\'s' <y
     <<"x", " ", ">", "=", " ", "'", "i", "t", "\\", "'", "s", "'", " ", "<", "y">>,
     \* \n  select TODAY
     <<"\n", " ", " ", "s", "e", "l", "e", "c", "t", " ", "T", "O", "D", "A", "Y">>,
     \* a.b ! c
     <<"a", ".", "b", " ", "!", " ", "c">>,
     \* "a\nb
     <<"\"", "a", "\n", "b">>,
     \* order by_field
     <<"o", "r", "d", "e", "r", " ", "b", "y", "_", "f", "i", "e", "l", "d">>,
     \* Order  By\tx
     <<"O", "r", "d", "e", "r", " ", " ", "B", "y", "\t", "x">>,
     \* by x
     <<"b", "y", " ", "x">>,
     \* Select By from ORDER
     <<"S", "e", "l", "e", "c", "t", " ", "B", "y", " ", "f", "r", "o", "m", " ", "O", "R", "D", "E", "R">>,
     \* café, its last letter the two bytes C3 A9 of UTF-8
     <<"c", "a", "f", "xC3", "xA9">>,
     \* x_õ1, its letter õ the two bytes C3 B5
     <<"x", "_", "xC3", "xB5", "1">>,
     \* α, the two bytes CE B1
     <<"xCE", "xB1">>}

(***************************************************************************)
(* The queries a caller builds without the parser and hands to Validate:   *)
(* they need not be ones Parse can return.                                 *)
(***************************************************************************)
MaxConds == 2

campaignId == <<"c", "a", "m", "p", "a", "i", "g", "n", ".", "i", "d">>

campaignStatus == <<"c", "a", "m", "p", "a", "i", "g", "n", ".", "s", "t", "a", "t", "u", "s">>

metricsClicks == <<"m", "e", "t", "r", "i", "c", "s", ".", "c", "l", "i", "c", "k", "s">>

day1 == <<"2", "0", "2", "6", "-", "0", "1", "-", "0", "1">>

day2 == <<"2", "0", "2", "6", "-", "0", "1", "-", "3", "1">>

StringValue(s) == [ZeroValue EXCEPT !.Type = "ValueString", !.Str = s]

ListValue(list) == [ZeroValue EXCEPT !.Type = "ValueList", !.List = list]

DateRangeValue(d) == [ZeroValue EXCEPT !.Type = "ValueDateRange", !.DateRange = d]

Cond(field, op, value) == [Field |-> field, Operator |-> op, Value |-> value]

BuiltConds ==
    {Cond(<<>>, "OpEq", StringValue(day1)),
     Cond(<<>>, "OpDuring", StringValue(day1)),
     Cond(campaignStatus, "OpEq", StringValue(<<"E", "N", "A", "B", "L", "E", "D">>)),
     Cond(campaignStatus, "OpDuring", StringValue(day1)),
     Cond(campaignStatus, "OpBetween", ListValue(<<day1>>)),
     Cond(segmentsDate, "OpDuring", DateRangeValue(DateRangeToday)),
     Cond(segmentsDate, "OpDuring", DateRangeValue("DateRangeLast7Days")),
     Cond(segmentsDate, "OpDuring", DateRangeValue(DateRangeCustom)),
     Cond(segmentsDate, "OpEq", StringValue(day1)),
     Cond(segmentsDate, "OpBetween", ListValue(<<day1, day1>>)),
     Cond(segmentsDate, "OpBetween", ListValue(<<day1, day2>>)),
     Cond(segmentsDate, "OpBetween", ListValue(<<<<"t", "o", "d", "a", "y">>, <<"T", "O", "D", "A", "Y">>>>)),
     Cond(segmentsDate, "OpGt", StringValue(day1)),
     Cond(segmentsDate, "OpBetween", ListValue(<<day1, <<"2", "0", "2", "6", "-", "1", "-", "1">>>>)),
     Cond(campaignStatus, "OpBetween", StringValue(day1)),
     Cond(campaignStatus, "OpIn", StringValue(day1)),
     Cond(segmentsDate, "OpIsNull", [ZeroValue EXCEPT !.Type = "ValueNull"])}

BuiltSelects ==
    {<<>>,
     <<[Name |-> <<>>]>>,
     <<[Name |-> campaignId]>>,
     <<[Name |-> metricsClicks]>>,
     <<[Name |-> campaignId], [Name |-> metricsClicks]>>,
     <<[Name |-> metricsClicks], [Name |-> segmentsDate]>>}

BuiltFroms ==
    {<<>>,
     <<"c", "a", "m", "p", "a", "i", "g", "n">>,
     <<"c", "l", "i", "c", "k", "_", "v", "i", "e", "w">>,
     <<"n", "e", "w", "_", "r", "e", "s", "o", "u", "r", "c", "e", "_", "v", "9", "9">>}

BuiltQueries ==
    {[NewQuery EXCEPT !.Select = s, !.From = f, !.Where = w, !.Limit = l] :
        s \in BuiltSelects, f \in BuiltFroms,
        w \in UNION {[1..n -> BuiltConds] : n \in 0..MaxConds},
        l \in {0 - 1, 0}}

Validators == [AllowUnknownResources : BOOLEAN, RequireMetricDateContext : BOOLEAN]

(***************************************************************************)
(* The state: the text, the Lexer, the Query at hand, the Validator, what   *)
(* each operation returned, once it has been called, and the Parser of a   *)
(* Parse that is followed step by step.                                    *)
(***************************************************************************)
VARIABLES input, lexer, lexed, parsed, query, validator, verr, again, validated, printed,
          reparsed, calls, parser

vars ==
    <<input, lexer, lexed, parsed, query, validator, verr, again, validated, printed, reparsed,
      calls, parser>>

NotDone == [done |-> FALSE]

\* No call is running beside the one at hand.
NoCalls == <<>>

IsNil(q) == "nil" \in DOMAIN q

\* The Parser of a Parse whose Lexer is still running: the clause it is at
\* (pc), the Query built so far, and the field, operator and items of the
\* list condition at hand.
NoParser ==
    [tokens |-> <<>>, pos |-> 0, pc |-> "lex", query |-> NewQuery, field |-> <<>>, op |-> "",
     items |-> <<>>, err |-> NoError]

Fresh ==
    /\ lexer = NewLexer(input)
    /\ lexed = NotDone
    /\ parsed = NotDone
    /\ validator = NewValidator
    /\ verr = NotDone
    /\ again = NotDone
    /\ validated = NotDone
    /\ printed = NotDone
    /\ reparsed = NotDone
    /\ parser = NoParser

Init ==
    /\ input \in Texts
    /\ query = NilQuery
    /\ calls = NoCalls
    /\ Fresh

InitValidate ==
    /\ input = <<>>
    /\ query \in BuiltQueries
    /\ calls = NoCalls
    /\ Fresh

InitLex ==
    /\ input \in LexInputs \cup LexTexts
    /\ query = NilQuery
    /\ calls = NoCalls
    /\ Fresh

\* l.Tokenize() on the Lexer.
DoTokenize ==
    /\ ~lexed.done
    /\ \E r \in {Tokenize(lexer)} :
          /\ lexer' = r.l
          /\ lexed' = [done |-> TRUE, tokens |-> r.tokens, err |-> r.err]
    /\ UNCHANGED <<input, parsed, query, validator, verr, again, validated, printed,
                   reparsed, calls, parser>>

\* l.Tokenize() once more, on the same Lexer.
DoTokenizeAgain ==
    /\ lexed.done
    /\ ~again.done
    /\ \E r \in {Tokenize(lexer)} :
          /\ lexer' = r.l
          /\ again' = [done |-> TRUE, tokens |-> r.tokens, err |-> r.err]
    /\ UNCHANGED <<input, lexed, parsed, query, validator, verr, validated, printed,
                   reparsed, calls, parser>>

\* q, err := Parse(input)
DoParse ==
    /\ ~parsed.done
    /\ \E r \in {Parse(input)} :
          /\ parsed' = [done |-> TRUE, query |-> r.query, err |-> r.err]
          /\ query' = r.query
    /\ UNCHANGED <<input, lexer, lexed, validator, verr, again, validated, printed,
                   reparsed, calls, parser>>

\* err := v.Validate(q), for a Validator v with any setting of its flags.
DoValidate ==
    /\ ~IsNil(query)
    /\ ~verr.done
    /\ \E v \in Validators :
          \E r \in {ValidateOn(v, query)} :
              /\ validator' = r.v
              /\ query' = r.q
              /\ verr' = [done |-> TRUE, err |-> r.err]
    /\ UNCHANGED <<input, lexer, lexed, parsed, again, validated, printed, reparsed, calls,
                   parser>>

\* err = v.Validate(q) once more, on the same Validator and Query.
DoValidateAgain ==
    /\ verr.done
    /\ ~again.done
    /\ \E r \in {ValidateOn(validator, query)} :
          /\ validator' = r.v
          /\ query' = r.q
          /\ again' = [done |-> TRUE, err |-> r.err]
    /\ UNCHANGED <<input, lexer, lexed, parsed, verr, validated, printed, reparsed, calls,
                   parser>>

\* q, err := ValidateQuery(input)
DoValidateQuery ==
    /\ ~validated.done
    /\ \E r \in {ValidateQuery(input)} :
          validated' = [done |-> TRUE, query |-> r.query, err |-> r.err]
    /\ UNCHANGED <<input, lexer, lexed, parsed, query, validator, verr, again, printed,
                   reparsed, calls, parser>>

\* s := q.String()
DoString ==
    /\ ~IsNil(query)
    /\ ~printed.done
    /\ \E keyOrder \in KeyOrders(query.Parameters) :
          printed' = [done |-> TRUE, text |-> QueryString(query, keyOrder)]
    /\ UNCHANGED <<input, lexer, lexed, parsed, query, validator, verr, again, validated,
                   reparsed, calls, parser>>

\* s = q.String() once more, on the same Query.
DoStringAgain ==
    /\ printed.done
    /\ ~again.done
    /\ \E keyOrder \in KeyOrders(query.Parameters) :
          again' = [done |-> TRUE, text |-> QueryString(query, keyOrder)]
    /\ UNCHANGED <<input, lexer, lexed, parsed, query, validator, verr, validated, printed,
                   reparsed, calls, parser>>

\* Parse(s) of the printed text.
DoReparse ==
    /\ printed.done
    /\ ~reparsed.done
    /\ \E r \in {Parse(printed.text)} :
          reparsed' = [done |-> TRUE, query |-> r.query, err |-> r.err]
    /\ UNCHANGED <<input, lexer, lexed, parsed, query, validator, verr, again, validated,
                   printed, calls, parser>>

Next == DoParse \/ DoValidate \/ DoValidateQuery \/ DoString \/ DoReparse

Spec == Init /\ [][Next]_vars

NextValidate == DoValidate \/ DoValidateAgain

SpecValidate == InitValidate /\ [][NextValidate]_vars

NextString == DoParse \/ DoString \/ DoStringAgain

SpecString == Init /\ [][NextString]_vars

NextLex == DoTokenize \/ DoTokenizeAgain

SpecLex == InitLex /\ [][NextLex]_vars

(***************************************************************************)
(* Calls running at once.  Each goroutine makes one call of Parse,         *)
(* Validate or ValidateQuery; a call of Parse or ValidateQuery creates its *)
(* own Lexer and runs one iteration of Tokenize's loop per step, then the  *)
(* parser, then, for ValidateQuery, the validator.                         *)
(***************************************************************************)
MaxGoroutines == 2

ConcurrentTexts ==
     \* SELECT metrics.c FROM b
    {<<"S", "E", "L", "E", "C", "T", " ", "m", "e", "t", "r", "i", "c", "s", ".", "c", " ",
       "F", "R", "O", "M", " ", "b">>,
     \* a !
     <<"a", " ", "!">>}

ConcurrentQueries ==
    {[NewQuery EXCEPT !.Select = <<[Name |-> campaignId]>>,
                      !.From = <<"c", "a", "m", "p", "a", "i", "g", "n">>],
     [NewQuery EXCEPT !.Select = <<[Name |-> metricsClicks]>>,
                      !.From = <<"c", "l", "i", "c", "k", "_", "v", "i", "e", "w">>,
                      !.Where = <<Cond(segmentsDate, "OpGt", StringValue(day1))>>]}

\* A call that has not started.
NewCall(op, text, v, q) ==
    [op |-> op, text |-> text, v |-> v, q |-> q,
     pc |-> IF op = "Validate" THEN "validate" ELSE "lex",
     l |-> NewLexer(text), query |-> NilQuery, err |-> NoError]

Calls ==
    {NewCall(op, text, NewValidator, NilQuery) :
        op \in {"Parse", "ValidateQuery"}, text \in ConcurrentTexts}
    \cup {NewCall("Validate", <<>>, NewValidator, q) : q \in ConcurrentQueries}

\* The Lexer of goroutine 1 taken for the Lexer of every call.
lexerOfFirst(cs, g) == cs[1].l

\* The Lexer that the call of goroutine g created.
lexerOf(cs, g) == cs[g].l

\* The call after one iteration of the loop of Tokenize on the Lexer after
\* nextToken, which returned tok.
afterToken(c, next, tok) ==
    [c EXCEPT !.l = [next EXCEPT !.tokens = Append(@, tok)],
              !.pc = IF tok.Type = "EOF" THEN "parse"
                     ELSE IF tok.Type = "ERROR" THEN "done" ELSE "lex",
              !.err = IF tok.Type = "ERROR"
                      THEN ParseError(tok.Msg, tok.Line, tok.Column) ELSE NoError]

\* The call after its parser has run and returned r.
afterParse(c, r) ==
    IF r.err.Kind /= "nil" THEN [c EXCEPT !.pc = "done", !.err = r.err]
    ELSE IF c.op = "Parse" THEN [c EXCEPT !.pc = "done", !.query = r.query]
    ELSE [c EXCEPT !.pc = "validate", !.q = r.query]

\* The call after its validator has run and returned r.
afterValidate(c, r) == [c EXCEPT !.pc = "done", !.query = r.query, !.err = r.err]

InitConcurrent ==
    /\ input = <<>>
    /\ query = NilQuery
    /\ calls \in [1..MaxGoroutines -> Calls]
    /\ Fresh

\* One iteration of the loop of Tokenize in the call of goroutine g.
CallTokenize(g) ==
    /\ calls[g].pc = "lex"
    /\ \E r \in {nextToken(lexerOf(calls, g))} :
          calls' = [calls EXCEPT ![g] = afterToken(@, r.l, r.tok)]
    /\ UNCHANGED <<input, lexer, lexed, parsed, query, validator, verr, again, validated,
                   printed, reparsed, parser>>

\* p.parseQuery() in the call of goroutine g.
CallParse(g) ==
    /\ calls[g].pc = "parse"
    /\ \E r \in {parseResult(parseQuery([tokens |-> calls[g].l.tokens, pos |-> 0]))} :
          calls' = [calls EXCEPT ![g] = afterParse(@, r)]
    /\ UNCHANGED <<input, lexer, lexed, parsed, query, validator, verr, again, validated,
                   printed, reparsed, parser>>

\* v.Validate(q) in the call of goroutine g.
CallValidate(g) ==
    /\ calls[g].pc = "validate"
    /\ \E r \in {validateResult(calls[g].q, Validate(calls[g].v, calls[g].q))} :
          calls' = [calls EXCEPT ![g] = afterValidate(@, r)]
    /\ UNCHANGED <<input, lexer, lexed, parsed, query, validator, verr, again, validated,
                   printed, reparsed, parser>>

NextConcurrent ==
    \E g \in 1..MaxGoroutines : CallTokenize(g) \/ CallParse(g) \/ CallValidate(g)

SpecConcurrent == InitConcurrent /\ [][NextConcurrent]_vars
(***************************************************************************)
(* Parse followed step by step: one iteration of the loop of Tokenize per  *)
(* step, then parseQuery one clause keyword or one iteration of a list     *)
(* loop per step.  The Parser record carries, beside tokens and pos, the   *)
(* clause it is at and the locals of parseQuery and of the loops.          *)
(***************************************************************************)
\* Tokenize leaving its loop at the end-of-input token only.
tokenizeEndsAtEOF(tok) == tok.Type = "EOF"

\* Whether the loop of Tokenize ends after appending tok.
tokenizeEnds(tok) == tok.Type \in {"EOF", "ERROR"}

\* The error that Tokenize returns after appending tok.
tokenizeError(tok) ==
    IF tok.Type = "ERROR" THEN ParseError(tok.Msg, tok.Line, tok.Column) ELSE NoError

\* p := &Parser{tokens: tokens, pos: 0}, at the start of parseQuery.
startParser(tokens) == [NoParser EXCEPT !.tokens = tokens, !.pc = "select"]

\* return nil, err
returned(s, err) == [s EXCEPT !.pc = "done", !.err = err, !.query = NilQuery]

\* Parse after Tokenize has returned, tok being the last token.
parserAfterToken(s, tokens, tok) ==
    IF tokenizeError(tok).Kind /= "nil" THEN returned(s, tokenizeError(tok))
    ELSE startParser(tokens)

\* parseQuery at SELECT.
selectStep(s) ==
    IF ~check(s, "SELECT") THEN returned(s, parserError(s, <<"expected SELECT clause">>))
    ELSE [parserAdvance(s) EXCEPT !.pc = "fields"]

\* One iteration of the loop of parseFieldList, after its parseField.
appendField(s, field) ==
    IF ~field.ok THEN returned(s, field.err)
    ELSE IF check(field.p, ",")
    THEN [parserAdvance(field.p) EXCEPT !.query.Select = Append(@, field.v)]
    ELSE [field.p EXCEPT !.query.Select = Append(@, field.v), !.pc = "from"]

fieldStep(s) == appendField(s, parseField(s))

\* parseQuery at FROM.
fromStep(s) ==
    IF ~check(s, "FROM") THEN returned(s, parserError(s, <<"expected FROM clause">>))
    ELSE IF ~check(parserAdvance(s), "IDENT")
    THEN returned(s, parserError(parserAdvance(s), <<"expected resource name after FROM">>))
    ELSE [parserAdvance(parserAdvance(s)) EXCEPT !.query.From = current(parserAdvance(s)).Value,
                                                 !.pc = "where"]

\* parseQuery at the optional WHERE, ORDER BY and PARAMETERS keywords.
keywordStep(s, type, loop, after) ==
    IF check(s, type) THEN [parserAdvance(s) EXCEPT !.pc = loop] ELSE [s EXCEPT !.pc = after]

\* The end of an iteration of the loop of parseConditions: the condition is
\* appended, and an AND starts the next iteration.
endCondition(s, cond) ==
    IF check(s, "AND")
    THEN [parserAdvance(s) EXCEPT !.query.Where = Append(@, cond), !.pc = "conditions",
                                  !.field = <<>>, !.op = "", !.items = <<>>]
    ELSE [s EXCEPT !.query.Where = Append(@, cond), !.pc = "orderby",
                   !.field = <<>>, !.op = "", !.items = <<>>]

\* parseCondition after parseValue for an operator that takes no list.
conditionValue(s, field, op, value) ==
    IF ~value.ok THEN returned(s, value.err)
    ELSE endCondition(value.p, [Field |-> field.v.Name, Operator |-> op.v, Value |-> value.v])

\* parseCondition after parseOperator; for a list operator, parseList up to
\* its loop.
conditionOperator(s, field, op) ==
    IF ~op.ok THEN returned(s, op.err)
    ELSE IF op.v \in {"OpIsNull", "OpIsNotNull"}
    THEN endCondition(op.p, [Field |-> field.v.Name, Operator |-> op.v,
                                Value |-> [ZeroValue EXCEPT !.Type = "ValueNull"]])
    ELSE IF op.v \in {"OpIn", "OpNotIn", "OpContainsAny", "OpContainsAll", "OpContainsNone"}
    THEN IF ~check(op.p, "(")
         THEN returned(s, parserError(op.p, <<"expected '(' before list">>))
         ELSE [parserAdvance(op.p) EXCEPT !.pc = "items", !.field = field.v.Name, !.op = op.v]
    ELSE conditionValue(s, field, op, parseValue(op.p, op.v))

conditionField(s, field) ==
    IF ~field.ok THEN returned(s, field.err)
    ELSE conditionOperator(s, field, parseOperator(field.p))

\* One iteration of the loop of parseConditions, up to the loop of parseList
\* when the operator takes a list.
conditionStep(s) == conditionField(s, parseField(s))

\* One iteration of the loop of parseList, after its parseSimpleValue; after
\* the last one, the rest of parseList and of the condition it belongs to.
appendItem(s, val) ==
    IF ~val.ok THEN returned(s, val.err)
    ELSE IF check(val.p, ",")
    THEN [parserAdvance(val.p) EXCEPT !.items = Append(@, val.v)]
    ELSE IF ~check(val.p, ")")
    THEN returned(s, parserError(val.p, <<"expected ')' after list">>))
    ELSE endCondition(parserAdvance(val.p),
                         [Field |-> s.field, Operator |-> s.op,
                          Value |-> [ZeroValue EXCEPT !.Type = "ValueList",
                                                      !.List = Append(s.items, val.v)]])

itemStep(s) == appendItem(s, parseSimpleValue(s))

\* One iteration of the loop of parseOrderings, after parseField and the
\* direction.
appendOrdering(s, field, dir) ==
    IF check(dir.p, ",")
    THEN [parserAdvance(dir.p) EXCEPT
             !.query.OrderBy = Append(@, [Field |-> field.v.Name, Direction |-> dir.v])]
    ELSE [dir.p EXCEPT
             !.query.OrderBy = Append(@, [Field |-> field.v.Name, Direction |-> dir.v]),
             !.pc = "limit"]

orderingField(s, field) ==
    IF ~field.ok THEN returned(s, field.err)
    ELSE appendOrdering(s, field, parseDirection(field.p))

orderingStep(s) == orderingField(s, parseField(s))

\* parseQuery at the optional LIMIT clause, after strconv.Atoi.
limitValue(s, limit) ==
    IF ~limit.ok
    THEN returned(s, parserError(parserAdvance(s),
                                 <<"invalid LIMIT value", current(parserAdvance(s)).Value>>))
    ELSE IF limit.v <= 0
    THEN returned(s, parserError(parserAdvance(s), <<"LIMIT must be a positive integer">>))
    ELSE [parserAdvance(parserAdvance(s)) EXCEPT !.query.Limit = limit.v, !.pc = "params"]

limitStep(s) ==
    IF ~check(s, "LIMIT") THEN [s EXCEPT !.pc = "params"]
    ELSE IF ~check(parserAdvance(s), "NUMBER")
    THEN returned(s, parserError(parserAdvance(s), <<"expected number after LIMIT">>))
    ELSE limitValue(s, Atoi(current(parserAdvance(s)).Value))

\* One iteration of the loop of parseParameters, after its parseSimpleValue.
setParameter(s, val) ==
    IF ~val.ok THEN returned(s, val.err)
    ELSE IF check(val.p, ",")
    THEN [parserAdvance(val.p) EXCEPT !.query.Parameters = (current(s).Value :> val.v) @@ @]
    ELSE [val.p EXCEPT !.query.Parameters = (current(s).Value :> val.v) @@ @, !.pc = "end"]

parameterStep(s) ==
    IF ~check(s, "IDENT") THEN returned(s, parserError(s, <<"expected parameter name">>))
    ELSE IF ~check(parserAdvance(s), "=")
    THEN returned(s, parserError(parserAdvance(s), <<"expected '=' after parameter name">>))
    ELSE setParameter(s, parseSimpleValue(parserAdvance(parserAdvance(s))))

\* The end of parseQuery.
endStep(s) ==
    IF ~check(s, "EOF")
    THEN returned(s, parserError(s, <<"unexpected token", current(s).Value>>))
    ELSE [s EXCEPT !.pc = "done"]

\* The step of parseQuery that the Parser is at.
parserStep(s) ==
    CASE s.pc = "select" -> selectStep(s)
      [] s.pc = "fields" -> fieldStep(s)
      [] s.pc = "from" -> fromStep(s)
      [] s.pc = "where" -> keywordStep(s, "WHERE", "conditions", "orderby")
      [] s.pc = "conditions" -> conditionStep(s)
      [] s.pc = "items" -> itemStep(s)
      [] s.pc = "orderby" -> keywordStep(s, "ORDER BY", "orderings", "limit")
      [] s.pc = "orderings" -> orderingStep(s)
      [] s.pc = "limit" -> limitStep(s)
      [] s.pc = "params" -> keywordStep(s, "PARAMETERS", "parameters", "end")
      [] s.pc = "parameters" -> parameterStep(s)
      [] s.pc = "end" -> endStep(s)

InitStep ==
    /\ input \in Texts \cup LexInputs \cup LexTexts
    /\ query = NilQuery
    /\ calls = NoCalls
    /\ Fresh

\* One iteration of the loop of Tokenize, in Parse.
StepNextToken ==
    /\ ~lexed.done
    /\ \E r \in {nextToken(lexer)} :
          /\ lexer' = [r.l EXCEPT !.tokens = Append(@, r.tok)]
          /\ lexed' = IF tokenizeEnds(r.tok)
                      THEN [done |-> TRUE, tokens |-> Append(r.l.tokens, r.tok),
                            err |-> tokenizeError(r.tok)]
                      ELSE lexed
          /\ parser' = IF tokenizeEnds(r.tok)
                       THEN parserAfterToken(parser, Append(r.l.tokens, r.tok), r.tok)
                       ELSE parser
    /\ UNCHANGED <<input, parsed, query, validator, verr, again, validated, printed, reparsed,
                   calls>>

\* One step of parseQuery, in Parse.
StepParser ==
    /\ lexed.done
    /\ parser.pc /= "done"
    /\ parser' = parserStep(parser)
    /\ UNCHANGED <<input, lexer, lexed, parsed, query, validator, verr, again, validated,
                   printed, reparsed, calls>>

NextStep == StepNextToken \/ StepParser

SpecStep == InitStep /\ [][NextStep]_vars

(***************************************************************************)
(* The validator's rules as the specification numbers them, stated        *)
(* on the Query alone.                                                     *)
(***************************************************************************)
\* A date written YYYY-MM-DD, or a date-range keyword in any case.
DateOrKeyword(s) ==
    \/ /\ Len(s) = 10
       /\ \A i \in 1..10 : IF i \in {5, 8} THEN s[i] = "-" ELSE isDigit(s[i])
    \/ \E k \in DOMAIN DateRangeKeywords :
          Len(k) = Len(s) /\ \A i \in DOMAIN s : ToUpperByte(s[i]) = k[i]

Incompatible(cond) ==
    \/ cond.Operator = "OpDuring" /\ cond.Value.Type /= "ValueDateRange"
    \/ /\ cond.Operator = "OpBetween"
       /\ \/ cond.Value.Type /= "ValueList"
          \/ Len(cond.Value.List) /= 2
          \/ \E i \in DOMAIN cond.Value.List : ~DateOrKeyword(cond.Value.List[i])

\* A condition on segments.date that names a single day.
Qualifying(cond) ==
    /\ cond.Field = segmentsDate
    /\ \/ /\ cond.Operator = "OpDuring"
          /\ cond.Value.Type = "ValueDateRange"
          /\ cond.Value.DateRange \in {DateRangeToday, DateRangeYesterday}
       \/ cond.Operator = "OpEq"
       \/ /\ cond.Operator = "OpBetween"
          /\ Len(cond.Value.List) = 2
          /\ cond.Value.List[1] = cond.Value.List[2]

HasDateCondition(q) == \E i \in DOMAIN q.Where : q.Where[i].Field = segmentsDate

HasQualifying(q) == \E i \in DOMAIN q.Where : Qualifying(q.Where[i])

MetricsWithoutDate(q) ==
    /\ \E i \in DOMAIN q.Select : HasPrefix(q.Select[i].Name, metricsPrefix)
    /\ \A i \in DOMAIN q.Select : q.Select[i].Name /= segmentsDate
    /\ ~HasDateCondition(q)

Violates(k, v, q) ==
    CASE k = 1 -> q.Select = <<>>
      [] k = 2 -> \/ \E i \in DOMAIN q.Select : q.Select[i].Name = <<>>
                  \/ \E i \in DOMAIN q.Where : q.Where[i].Field = <<>>
      [] k = 3 -> q.From = <<>>
      [] k = 4 -> ~v.AllowUnknownResources /\ q.From \notin KnownResources
      [] k = 5 -> \E i \in DOMAIN q.Where : Incompatible(q.Where[i])
      [] k = 6 -> q.Limit < 0
      [] k = 7 -> q.From \in SingleDayResources /\ ~HasQualifying(q)
      [] k = 8 -> v.RequireMetricDateContext /\ MetricsWithoutDate(q)

Violated(v, q) == {k \in 1..8 : Violates(k, v, q)}

Lowest(rules) == CHOOSE k \in rules : \A j \in rules : k <= j

AbsenceMessage ==
    <<"click_view requires segments.date in WHERE clause with single-day range">>

\* The messages that contain "click_view requires single-day date range".
SingleDayMessages ==
    {<<"click_view requires single-day date range">>,
     <<"click_view requires single-day date range (TODAY or YESTERDAY)">>}

MetricsMessage == <<"metrics require date context (segments.date in SELECT or WHERE)">>

\* The rule an error of the validator reports, by its message; 0 for no error.
RuleOf(err) ==
    IF err.Kind = "nil" THEN 0
    ELSE CASE err.Message[1] = "SELECT must contain at least one field" -> 1
           [] err.Message[1] = "field name cannot be empty" -> 2
           [] err.Message[1] = "FROM clause is required" -> 3
           [] err.Message[1] = "unknown resource" -> 4
           [] err.Message[1] \in {"DURING requires a date range keyword",
                                  "BETWEEN requires two values",
                                  "invalid date format (expected YYYY-MM-DD)"} -> 5
           [] err.Message[1] = "LIMIT must be non-negative" -> 6
           [] err.Message = AbsenceMessage \/ err.Message \in SingleDayMessages -> 7
           [] err.Message = MetricsMessage -> 8

FromTagged(err) ==
    err.Kind = "ValidationError" /\ err.Field = FROM /\ err.Message = AbsenceMessage

PassesUpTo(n, v, q) == \A k \in 1..n : ~Violates(k, v, q)

(***************************************************************************)
(* C1  Round trip: once a text that Parse accepted has been printed by     *)
(* String and the printed text parsed again, the second Parse succeeds and *)
(* returns a Query equal to the first.                                     *)
(***************************************************************************)
RoundTrip ==
    reparsed.done => reparsed.err.Kind = "nil" /\ reparsed.query = query

(***************************************************************************)
(* C2  Rule order: Validate returns no error when the Query violates no    *)
(* rule, and else the error of the lowest-numbered rule it violates, with  *)
(* the condition field names counted under rule 2.                         *)
(***************************************************************************)
LowestRuleFirst ==
    verr.done =>
        IF Violated(validator, query) = {}
        THEN verr.err.Kind = "nil"
        ELSE RuleOf(verr.err) = Lowest(Violated(validator, query))

(***************************************************************************)
(* C3  Single-day rule: for a click_view Query that passes rules 1 to 6,   *)
(* Validate reports no single-day error exactly when some condition of     *)
(* Where qualifies, wherever it stands among the conditions.               *)
(***************************************************************************)
SingleDayByExistence ==
    verr.done /\ query.From \in SingleDayResources /\ PassesUpTo(6, validator, query) =>
        (RuleOf(verr.err) /= 7 <=> HasQualifying(query))

(***************************************************************************)
(* C4  Single-day error selection: for a click_view Query that passes      *)
(* rules 1 to 6, Validate returns the absence error tagged FROM exactly    *)
(* when Where has no condition on segments.date; with such a condition but *)
(* none that qualifies it returns a "click_view requires single-day date   *)
(* range" error that is not the FROM-tagged one.                           *)
(***************************************************************************)
AbsenceErrorOnlyWhenAbsent ==
    verr.done /\ query.From \in SingleDayResources /\ PassesUpTo(6, validator, query) =>
        /\ FromTagged(verr.err) <=> ~HasDateCondition(query)
        /\ HasDateCondition(query) /\ ~HasQualifying(query) =>
              /\ verr.err.Kind = "ValidationError"
              /\ verr.err.Message \in SingleDayMessages
              /\ ~FromTagged(verr.err)

(***************************************************************************)
(* C5  Metric date context: for a Query that passes rules 1 to 7, Validate *)
(* with RequireMetricDateContext returns the metrics error exactly when a  *)
(* Select name starts with "metrics." and segments.date is neither a       *)
(* Select name nor a Where field; without the flag it never returns it.    *)
(***************************************************************************)
MetricDateContext ==
    verr.done /\ PassesUpTo(7, validator, query) =>
        IF validator.RequireMetricDateContext
        THEN (verr.err.Kind = "ValidationError" /\ verr.err.Message = MetricsMessage)
                <=> MetricsWithoutDate(query)
        ELSE RuleOf(verr.err) /= 8

MetricDateContextWitness ==
    /\ verr.done
    /\ PassesUpTo(7, validator, query)
    /\ validator.RequireMetricDateContext
    /\ verr.err.Kind = "ValidationError"
    /\ verr.err.Message = MetricsMessage

(***************************************************************************)
(* C6  ValidateQuery composition: ValidateQuery returns no Query and       *)
(* Parse's ParseError when Parse fails; else no Query and the              *)
(* ValidationError of a Validator with both flags true when that Validator *)
(* rejects the parsed Query; else the parsed Query and no error.  Exactly  *)
(* one of the Query and the error it returns is nil.                       *)
(***************************************************************************)
DefaultFlags == [AllowUnknownResources |-> TRUE, RequireMetricDateContext |-> TRUE]

ValidateQueryComposes ==
    validated.done /\ parsed.done =>
        /\ IsNil(validated.query) <=> validated.err.Kind /= "nil"
        /\ parsed.err.Kind /= "nil" =>
              /\ parsed.err.Kind = "ParseError"
              /\ validated.err = parsed.err
        /\ parsed.err.Kind = "nil" /\ verr.done /\ validator = DefaultFlags =>
              /\ verr.err.Kind \in {"nil", "ValidationError"}
              /\ verr.err.Kind /= "nil" => validated.err = verr.err
              /\ verr.err.Kind = "nil" =>
                    validated.err.Kind = "nil" /\ validated.query = parsed.query

ValidateQueryComposesWitness ==
    /\ validated.done
    /\ parsed.done
    /\ verr.done
    /\ validator = DefaultFlags
    /\ validated.err.Kind = "ValidationError"

\* A step in which Parse returns.
ParseReturns == ~parsed.done /\ parsed'.done

\* The tokens of a text, up to its EOF or its lexical error.
TokensOf(text) == Tokenize(NewLexer(text)).tokens

TokensAt(toks, type) == {i \in 1..(Len(toks) - 1) : toks[i].Type = type}

(***************************************************************************)
(* C7  LIMIT: Parse fails whenever a LIMIT token is followed by anything   *)
(* but a number token that denotes a strictly positive integer; when what  *)
(* follows denotes zero or a negative integer and the error is reported    *)
(* there, its message is "LIMIT must be a positive integer"; and on        *)
(* success Limit is 0 exactly when the text has no LIMIT token, and        *)
(* positive otherwise.                                                     *)
(***************************************************************************)
PositiveIntText(s) ==
    s /= <<>> /\ (\A i \in DOMAIN s : isDigit(s[i])) /\ (\E i \in DOMAIN s : s[i] /= "0")

\* Zero or a negative integer, of a size an int holds.
NonPositiveIntText(s) ==
    /\ Len(s) < 19
    /\ \/ s /= <<>> /\ \A i \in DOMAIN s : s[i] = "0"
       \/ Len(s) > 1 /\ s[1] = "-" /\ \A i \in 2..Len(s) : isDigit(s[i])

LimitClaim(toks, r) ==
    /\ \A i \in TokensAt(toks, "LIMIT") :
          ~(toks[i + 1].Type = "NUMBER" /\ PositiveIntText(toks[i + 1].Value)) =>
              r.err.Kind = "ParseError" /\ IsNil(r.query)
    /\ \A i \in TokensAt(toks, "LIMIT") :
          /\ toks[i + 1].Type = "NUMBER"
          /\ NonPositiveIntText(toks[i + 1].Value)
          /\ r.err.Kind = "ParseError"
          /\ r.err.Line = toks[i + 1].Line
          /\ r.err.Column = toks[i + 1].Column
          => r.err.Message = <<"LIMIT must be a positive integer">>
    /\ r.err.Kind = "nil" =>
          /\ r.query.Limit = 0 <=> TokensAt(toks, "LIMIT") = {}
          /\ r.query.Limit >= 0

IsIdentByte(ch) == isLetter(ch) \/ isDigit(ch) \/ ch = "_"

IsIdentifier(s) ==
    s /= <<>> /\ (isLetter(s[1]) \/ s[1] = "_") /\ \A i \in DOMAIN s : IsIdentByte(s[i])

IsDottedName(s) ==
    /\ s /= <<>>
    /\ s[1] /= "."
    /\ s[Len(s)] /= "."
    /\ \A i \in DOMAIN s : s[i] = "." \/ IsIdentByte(s[i])
    /\ \A i \in 1..(Len(s) - 1) : ~(s[i] = "." /\ s[i + 1] = ".")

ParseClaim(toks, r) ==
    /\ r.err.Kind = "nil" =>
          /\ ~IsNil(r.query)
          /\ r.query.Select /= <<>>
          /\ \A i \in DOMAIN r.query.Select : IsDottedName(r.query.Select[i].Name)
          /\ IsIdentifier(r.query.From)
    /\ \/ TokensAt(toks, "SELECT") = {}
       \/ \E i \in TokensAt(toks, "SELECT") : toks[i + 1].Type /= "IDENT"
       \/ TokensAt(toks, "FROM") = {}
       => r.err.Kind = "ParseError" /\ IsNil(r.query)

ParsedQueryIsWellFormed == [][ParseReturns => ParseClaim(TokensOf(input), parsed')]_vars

ParsedQueryIsWellFormedWitness ==
    /\ parsed.done
    /\ parsed.err.Kind = "nil"
    /\ Len(parsed.query.Select) > 1
    /\ \E i \in DOMAIN parsed.query.Select :
          \E j \in DOMAIN parsed.query.Select[i].Name : parsed.query.Select[i].Name[j] = "."

(***************************************************************************)
(* C9  Operator-driven value kinds: in a Query that Parse returns, IS NULL *)
(* and IS NOT NULL have the null value; DURING has one of the 12           *)
(* predefined date ranges, never CUSTOM; BETWEEN has the list of the two   *)
(* values as the text orders them; the list operators have a non-empty     *)
(* list; every other operator has a string or a number.                    *)
(***************************************************************************)
PredefinedDateRanges == {DateRangeKeywords[k] : k \in DOMAIN DateRangeKeywords}

ListOperators == {"OpIn", "OpNotIn", "OpContainsAny", "OpContainsAll", "OpContainsNone"}

\* The token of the n-th BETWEEN of the text.
NthBetween(toks, n) ==
    CHOOSE i \in TokensAt(toks, "BETWEEN") :
        Cardinality({j \in TokensAt(toks, "BETWEEN") : j <= i}) = n

KindPermitted(toks, where, i) ==
    CASE where[i].Operator \in {"OpIsNull", "OpIsNotNull"} ->
            where[i].Value.Type = "ValueNull"
      [] where[i].Operator = "OpDuring" ->
            /\ where[i].Value.Type = "ValueDateRange"
            /\ where[i].Value.DateRange \in PredefinedDateRanges
            /\ where[i].Value.DateRange /= DateRangeCustom
            /\ Cardinality(PredefinedDateRanges) = 12
      [] where[i].Operator = "OpBetween" ->
            /\ where[i].Value.Type = "ValueList"
            /\ Len(where[i].Value.List) = 2
            /\ \E n \in {Cardinality({j \in 1..i : where[j].Operator = "OpBetween"})} :
                  /\ where[i].Value.List[1] = toks[NthBetween(toks, n) + 1].Value
                  /\ where[i].Value.List[2] = toks[NthBetween(toks, n) + 3].Value
      [] where[i].Operator \in ListOperators ->
            where[i].Value.Type = "ValueList" /\ where[i].Value.List /= <<>>
      [] OTHER ->
            where[i].Value.Type \in {"ValueString", "ValueNumber"}

ValueClaim(toks, r) ==
    r.err.Kind = "nil" => \A i \in DOMAIN r.query.Where : KindPermitted(toks, r.query.Where, i)

ValueKindFollowsOperator == [][ParseReturns => ValueClaim(TokensOf(input), parsed')]_vars

ValueKindFollowsOperatorWitness ==
    /\ parsed.done
    /\ parsed.err.Kind = "nil"
    /\ \E i \in DOMAIN parsed.query.Where :
          /\ parsed.query.Where[i].Operator = "OpBetween"
          /\ parsed.query.Where[i].Value.List[1] /= parsed.query.Where[i].Value.List[2]

(***************************************************************************)
(* C10  Lone minus: when the first byte the lexer cannot accept is a '-'   *)
(* that no digit follows, outside any string literal, Tokenize returns a   *)
(* ParseError at the line and column of that '-' and no number token       *)
(* starts there.                                                           *)
(***************************************************************************)
LoneMinus(s, i) == s[i] = "-" /\ (i = Len(s) \/ ~isDigit(s[i + 1]))

\* No quote, no backslash, no stray '!' and no lone '-' before offset i.
CleanBefore(s, i) ==
    \A j \in 1..(i - 1) :
        /\ s[j] \notin {"'", "\"", "\\"}
        /\ s[j] = "!" => s[j + 1] = "="
        /\ ~LoneMinus(s, j)

LineOf(s, i) == 1 + Cardinality({j \in 1..(i - 1) : s[j] = "\n"})

ColumnOf(s, i) == Cardinality({j \in 1..i : \A k \in j..(i - 1) : s[k] /= "\n"})

LoneMinusIsError ==
    lexed.done =>
        \A i \in DOMAIN input :
            LoneMinus(input, i) /\ CleanBefore(input, i) =>
                /\ lexed.err.Kind = "ParseError"
                /\ lexed.err.Line = LineOf(input, i)
                /\ lexed.err.Column = ColumnOf(input, i)
                /\ \A k \in DOMAIN lexed.tokens :
                      ~(/\ lexed.tokens[k].Type = "NUMBER"
                        /\ lexed.tokens[k].Line = LineOf(input, i)
                        /\ lexed.tokens[k].Column = ColumnOf(input, i))

(***************************************************************************)
(* C11  DURING with an unknown date-range word: when a DURING token is     *)
(* followed by a word that is not a date-range keyword, Parse returns a    *)
(* ParseError, and when that error is the one reported at the word, its    *)
(* message is "unknown date range" followed by the word.                   *)
(***************************************************************************)
DuringClaim(toks, r) ==
    \A i \in TokensAt(toks, "DURING") :
        toks[i + 1].Type = "IDENT" =>
            /\ r.err.Kind = "ParseError"
            /\ r.err.Line = toks[i + 1].Line /\ r.err.Column = toks[i + 1].Column =>
                  r.err.Message = <<"unknown date range", toks[i + 1].Value>>

UnknownDateRangeIsNamed == [][ParseReturns => DuringClaim(TokensOf(input), parsed')]_vars

\* What the lexer returns for a text.
LexedOf(text) == Tokenize(NewLexer(text))

\* The offset (from 1) of the byte at a line and column of a text, or one
\* past the end of the text.
RECURSIVE OffsetFrom(_, _, _, _, _, _)
OffsetFrom(s, line, col, i, l, c) ==
    IF i > Len(s) \/ (l = line /\ c = col) THEN i
    ELSE IF s[i] = "\n" THEN OffsetFrom(s, line, col, i + 1, l + 1, 1)
    ELSE OffsetFrom(s, line, col, i + 1, l, c + 1)

OffsetOf(s, line, col) == OffsetFrom(s, line, col, 1, 1, 1)

\* The text up to, and without, the token.
TextBefore(text, tok) == SubSeq(text, 1, OffsetOf(text, tok.Line, tok.Column) - 1)

\* The text up to, and with, token k: all of it when k is the last token.
TextThrough(text, toks, k) ==
    IF k = Len(toks) THEN text ELSE TextBefore(text, toks[k + 1])

\* Parse does not fail before the end of the text.
FailsOnlyAtEnd(text) ==
    \E r \in {Parse(text)}, toks \in {TokensOf(text)} :
        r.err.Kind /= "nil" =>
            r.err.Line = toks[Len(toks)].Line /\ r.err.Column = toks[Len(toks)].Column

(***************************************************************************)
(* C12  Parser error positions: a ParseError of the parser stage (the text *)
(* has no lexical error) has Line >= 1 and Column >= 1 and the position of *)
(* a token k of the lexer's sequence, the first one not consumed: the text *)
(* cut before token k does not fail before its end, and the text cut after *)
(* token k fails with the same error.  The empty text fails at (1, 1).     *)
(***************************************************************************)
ErrorPositionClaim(text, lx, r) ==
    r.err.Kind = "ParseError" /\ lx.err.Kind = "nil" =>
        /\ r.err.Line >= 1
        /\ r.err.Column >= 1
        /\ \E k \in DOMAIN lx.tokens :
              /\ lx.tokens[k].Line = r.err.Line
              /\ lx.tokens[k].Column = r.err.Column
              /\ FailsOnlyAtEnd(TextBefore(text, lx.tokens[k]))
              /\ Parse(TextThrough(text, lx.tokens, k)).err = r.err
        /\ text = <<>> => r.err.Line = 1 /\ r.err.Column = 1

ErrorAtCurrentToken ==
    [][ParseReturns => ErrorPositionClaim(input, LexedOf(input), parsed')]_vars

\* A parser error at a token in the middle of the text.
ErrorAtCurrentTokenWitness ==
    /\ parsed.done
    /\ parsed.err.Kind = "ParseError"
    /\ parsed.err.Message = <<"expected AND in BETWEEN clause">>
    /\ \E k \in 2..(Len(TokensOf(input)) - 1) :
          /\ TokensOf(input)[k].Line = parsed.err.Line
          /\ TokensOf(input)[k].Column = parsed.err.Column

\* The offset of the closing quote of a string literal whose content starts
\* at j, or 0: a backslash takes the byte after it with it.
RECURSIVE ClosingQuote(_, _, _)
ClosingQuote(s, quote, j) ==
    IF j > Len(s) THEN 0
    ELSE IF s[j] = quote THEN j
    ELSE IF s[j] = "\\" THEN ClosingQuote(s, quote, j + 2)
    ELSE ClosingQuote(s, quote, j + 1)

\* The offset of the opening quote of the string literal that reaches the
\* end of the text unclosed, or 0: also 0 when a byte that no token starts
\* with stands before it, outside any string literal.
RECURSIVE UnterminatedFrom(_, _)
UnterminatedFrom(s, j) ==
    IF j > Len(s) THEN 0
    ELSE IF s[j] \in {"'", "\""}
    THEN IF ClosingQuote(s, s[j], j + 1) = 0 THEN j
         ELSE UnterminatedFrom(s, ClosingQuote(s, s[j], j + 1) + 1)
    ELSE IF s[j] = "\\" THEN 0
    ELSE IF s[j] = "!"
    THEN IF j < Len(s) /\ s[j + 1] = "=" THEN UnterminatedFrom(s, j + 2) ELSE 0
    ELSE UnterminatedFrom(s, j + 1)

(***************************************************************************)
(* C13  Unterminated string: when a string literal opened by ' or " runs   *)
(* to the end of the text without its unescaped closing quote (no lexical  *)
(* error before it), Tokenize returns the ParseError "unterminated string" *)
(* with the line and column of the opening quote.                          *)
(***************************************************************************)
UnterminatedStringAtQuote ==
    lexed.done =>
        \E i \in {UnterminatedFrom(input, 1)} :
            i > 0 =>
                lexed.err = ParseError(<<"unterminated string">>,
                                       LineOf(input, i), ColumnOf(input, i))

\* A literal of several lines whose last byte is a backslash.
UnterminatedStringAtQuoteWitness ==
    /\ lexed.done
    /\ lexed.err.Kind = "ParseError"
    /\ lexed.err.Message = <<"unterminated string">>
    /\ input = <<"'", "\n", "\\">>

(***************************************************************************)
(* C14  Known-resource policy: for a Query whose Select has at least one   *)
(* field and no empty field name, Validate returns the error "unknown      *)
(* resource" with Field "FROM" exactly when AllowUnknownResources is false *)
(* and From is non-empty and no key of KnownResources; NewValidator sets   *)
(* the flag, and with the flag set no From is rejected as unknown.         *)
(***************************************************************************)
SelectNamesNonEmpty(q) ==
    q.Select /= <<>> /\ \A i \in DOMAIN q.Select : q.Select[i].Name /= <<>>

IsUnknownResource(err) ==
    /\ err.Kind = "ValidationError"
    /\ err.Message[1] = "unknown resource"

KnownResourcePolicy ==
    /\ NewValidator.AllowUnknownResources
    /\ verr.done /\ SelectNamesNonEmpty(query) =>
          /\ verr.err = ValidationError(<<"unknown resource", query.From>>, FROM)
                <=> /\ ~validator.AllowUnknownResources
                    /\ query.From /= <<>>
                    /\ query.From \notin KnownResources
          /\ IsUnknownResource(verr.err) => verr.err.Field = FROM
          /\ validator.AllowUnknownResources => ~IsUnknownResource(verr.err)

KnownResourcePolicyWitness ==
    /\ verr.done
    /\ SelectNamesNonEmpty(query)
    /\ ~validator.AllowUnknownResources
    /\ IsUnknownResource(verr.err)
    /\ query.Where /= <<>>

\* The place of a clause keyword in the order of the clauses; 0 for any
\* other token.
ClauseRank(type) ==
    CASE type = "WHERE" -> 1
      [] type = "ORDER BY" -> 2
      [] type = "LIMIT" -> 3
      [] type = "PARAMETERS" -> 4
      [] OTHER -> 0

ClauseTokens(toks) == {i \in 1..(Len(toks) - 1) : ClauseRank(toks[i].Type) > 0}

\* Each clause at most once, in the order WHERE, ORDER BY, LIMIT, PARAMETERS.
InClauseOrder(toks) ==
    \A i, j \in ClauseTokens(toks) :
        i < j => ClauseRank(toks[i].Type) < ClauseRank(toks[j].Type)

\* The place of the last clause of a text whose clauses are in order.
LastClauseRank(toks) ==
    IF ClauseTokens(toks) = {} THEN 0
    ELSE ClauseRank(toks[CHOOSE i \in ClauseTokens(toks) :
                            \A j \in ClauseTokens(toks) : j <= i].Type)

\* What is written after a text, with the place of the clause it starts:
\* 0 when it starts none.
TrailingParts ==
     \*  WHERE y = 2
    {[text |-> <<" ", "W", "H", "E", "R", "E", " ", "y", " ", "=", " ", "2">>, rank |-> 1],
     \*  ORDER BY z
     [text |-> <<" ", "O", "R", "D", "E", "R", " ", "B", "Y", " ", "z">>, rank |-> 2],
     \*  LIMIT 3
     [text |-> <<" ", "L", "I", "M", "I", "T", " ", "3">>, rank |-> 3],
     \*  PARAMETERS p = q
     [text |-> <<" ", "P", "A", "R", "A", "M", "E", "T", "E", "R", "S", " ", "p", " ", "=", " ", "q">>, rank |-> 4],
     \*  OR y = 2
     [text |-> <<" ", "O", "R", " ", "y", " ", "=", " ", "2">>, rank |-> 0],
     \*  x
     [text |-> <<" ", "x">>, rank |-> 0],
     \*  7
     [text |-> <<" ", "7">>, rank |-> 0],
     \*  )
     [text |-> <<" ", ")">>, rank |-> 0]}

(***************************************************************************)
(* C15  Clause order and trailing content: Parse returns a ParseError and  *)
(* no Query for a text in which a clause keyword is repeated or comes      *)
(* after a later clause's keyword, or in which an OR token occurs; and for *)
(* a text it accepts, the same text followed by a clause that is not later *)
(* in the order than its last clause, or by any other token, is rejected   *)
(* with a ParseError and no Query.                                         *)
(***************************************************************************)
Rejected(r) == r.err.Kind = "ParseError" /\ IsNil(r.query)

ClauseOrderClaim(text, toks, r) ==
    /\ ~InClauseOrder(toks) \/ TokensAt(toks, "OR") /= {} => Rejected(r)
    /\ r.err.Kind = "nil" =>
          \A part \in TrailingParts :
              part.rank <= LastClauseRank(toks) => Rejected(Parse(text \o part.text))

ClausesInOrderThenEnd ==
    [][ParseReturns => ClauseOrderClaim(input, TokensOf(input), parsed')]_vars

\* A WHERE clause after a LIMIT clause is what Parse stops at.
ClausesInOrderThenEndWitness ==
    /\ parsed.done
    /\ parsed.err.Kind = "ParseError"
    /\ parsed.err.Message = <<"unexpected token", <<"W", "H", "E", "R", "E">>>>

\* The i-th AND of the text is taken by the BETWEEN two tokens before it.
InsideBetween(toks, i) == i > 2 /\ toks[i - 2].Type = "BETWEEN"

(***************************************************************************)
(* C16  AND inside BETWEEN: in a Query that Parse returns, the conditions  *)
(* are one more than the AND tokens that do not stand two tokens after a   *)
(* BETWEEN, and each BETWEEN condition has the list of the values before   *)
(* and after its AND; and when the token two after a BETWEEN is not AND    *)
(* and the error is reported there, Parse fails with "expected AND in      *)
(* BETWEEN clause".                                                        *)
(***************************************************************************)
BetweenClaim(toks, r) ==
    /\ r.err.Kind = "nil" /\ TokensAt(toks, "WHERE") /= {} =>
          /\ Len(r.query.Where) =
                1 + Cardinality({i \in TokensAt(toks, "AND") : ~InsideBetween(toks, i)})
          /\ \A i \in TokensAt(toks, "BETWEEN") :
                /\ toks[i + 2].Type = "AND"
                /\ \E k \in DOMAIN r.query.Where :
                      /\ k = 1 + Cardinality({j \in TokensAt(toks, "AND") :
                                                 j < i /\ ~InsideBetween(toks, j)})
                      /\ r.query.Where[k].Operator = "OpBetween"
                      /\ r.query.Where[k].Value.Type = "ValueList"
                      /\ r.query.Where[k].Value.List = <<toks[i + 1].Value, toks[i + 3].Value>>
    /\ \A i \in TokensAt(toks, "BETWEEN") :
          /\ toks[i + 1].Type \in {"STRING", "NUMBER", "IDENT"}
          /\ toks[i + 2].Type /= "AND"
          /\ r.err.Kind = "ParseError"
          /\ r.err.Line = toks[i + 2].Line
          /\ r.err.Column = toks[i + 2].Column
          => r.err.Message = <<"expected AND in BETWEEN clause">>
    /\ \A i \in TokensAt(toks, "BETWEEN") :
          toks[i + 1].Type \in {"STRING", "NUMBER", "IDENT"} /\ toks[i + 2].Type /= "AND" =>
              r.err.Kind = "ParseError"

AndBelongsToBetween == [][ParseReturns => BetweenClaim(TokensOf(input), parsed')]_vars

\* A BETWEEN condition followed by AND and a second condition.
AndBelongsToBetweenWitness ==
    /\ parsed.done
    /\ parsed.err.Kind = "nil"
    /\ Len(parsed.query.Where) = 2
    /\ parsed.query.Where[1].Operator = "OpBetween"
    /\ parsed.query.Where[1].Value.List = <<<<"1">>, <<"2">>>>
    /\ parsed.query.Where[2].Operator = "OpEq"

\* A step in which the first, and the second, Validate on the Query returns.
ValidateReturns == ~verr.done /\ verr'.done

ValidateReturnsAgain == ~again.done /\ again'.done

(***************************************************************************)
(* C17  Validate is read-only and idempotent: a call of Validate leaves    *)
(* the Query as it was, a second call on the same Validator and Query      *)
(* leaves the Validator's flags as they were too, and the second call      *)
(* returns what the first returned: no error, or an error of the same      *)
(* message and field.                                                      *)
(***************************************************************************)
ValidateTwiceIsSame ==
    [][/\ ValidateReturns => query' = query
       /\ ValidateReturnsAgain =>
             /\ query' = query
             /\ validator' = validator
             /\ again'.err = verr.err]_vars

\* Both calls have returned the error of a rejected Limit.
ValidateTwiceIsSameWitness ==
    /\ verr.done
    /\ again.done
    /\ again.err.Kind = "ValidationError"
    /\ query.Limit < 0
    /\ query.Where /= <<>>

\* What the call returns when nothing else runs.
Alone(c) ==
    CASE c.op = "Parse" -> Parse(c.text)
      [] c.op = "ValidateQuery" -> ValidateQuery(c.text)
      [] c.op = "Validate" -> validateResult(c.q, Validate(c.v, c.q))

(***************************************************************************)
(* C18  No shared mutable state: whatever the order in which the steps of  *)
(* calls of Parse, Validate and ValidateQuery running at once are taken,   *)
(* each call returns the Query and the error that it returns when it runs  *)
(* alone, the same for two calls with the same argument.                   *)
(***************************************************************************)
CallsDoNotInterfere ==
    \A g \in DOMAIN calls :
        calls[g].pc = "done" =>
            /\ calls[g].query = Alone(calls[g]).query
            /\ calls[g].err = Alone(calls[g]).err

\* Two calls of Parse on the same text, the second done while the first is
\* in the middle of its text.
CallsDoNotInterfereWitness ==
    /\ DOMAIN calls = 1..MaxGoroutines
    /\ calls[1].op = "Parse"
    /\ calls[2].op = "Parse"
    /\ calls[1].text = calls[2].text
    /\ calls[1].pc = "lex"
    /\ calls[1].l.pos > 0
    /\ calls[2].pc = "done"
    /\ ~IsNil(calls[2].query)

Whitespace == {" ", "\t", "\r", "\n"}

\* The first offset from i on that holds no whitespace.
RECURSIVE SkipSpaces(_, _)
SkipSpaces(s, i) == IF i <= Len(s) /\ s[i] \in Whitespace THEN SkipSpaces(s, i + 1) ELSE i

\* The offset of the first byte of a token.
StartOf(s, tok) == OffsetOf(s, tok.Line, tok.Column)

\* A token of that type can start with the byte.
StartsWith(tok, ch) ==
    CASE tok.Type = "STRING" -> ch \in {"'", "\""}
      [] tok.Type = "NUMBER" -> ch = "-" \/ isDigit(ch)
      [] tok.Type = "ERROR" -> ch \notin Whitespace
      [] tok.Type \in {",", "(", ")", ".", "=", "!=", ">", ">=", "<", "<="} -> ch = tok.Value[1]
      [] OTHER -> (isLetter(ch) \/ ch = "_") /\ ToUpperByte(ch) = ToUpperByte(tok.Value[1])

\* The offset after the last byte of a token that starts at offset i.
EndOf(s, tok, i) ==
    CASE tok.Type = "STRING" -> ClosingQuote(s, s[i], i + 1) + 1
      [] tok.Type = "ORDER BY" -> SkipSpaces(s, i + 5) + 2
      [] tok.Type \in {"ERROR", "EOF"} -> i
      [] OTHER -> i + Len(tok.Value)

\* (Line, Column) of a is not after that of b.
NotAfter(a, b) == a.Line < b.Line \/ (a.Line = b.Line /\ a.Column <= b.Column)

(***************************************************************************)
(* C19  Token positions: every token that Tokenize returns has Line >= 1   *)
(* and Column >= 1; the first token of a text that starts with no          *)
(* whitespace is at (1, 1); the line and column of a token are those of    *)
(* its first byte (of the end of the text for the end-of-input token);     *)
(* and each token starts at or after the end of the token before it, never *)
(* at an earlier line and column.                                          *)
(***************************************************************************)
TokenPositions ==
    lexed.done =>
        /\ \A k \in DOMAIN lexed.tokens :
              /\ lexed.tokens[k].Line >= 1
              /\ lexed.tokens[k].Column >= 1
              /\ \E i \in {StartOf(input, lexed.tokens[k])} :
                    /\ LineOf(input, i) = lexed.tokens[k].Line
                    /\ ColumnOf(input, i) = lexed.tokens[k].Column
                    /\ IF lexed.tokens[k].Type = "EOF" THEN i = Len(input) + 1
                       ELSE i <= Len(input) /\ StartsWith(lexed.tokens[k], input[i])
        /\ input = <<>> \/ input[1] \notin Whitespace =>
              lexed.tokens[1].Line = 1 /\ lexed.tokens[1].Column = 1
        /\ \A k \in 1..(Len(lexed.tokens) - 1) :
              /\ NotAfter(lexed.tokens[k], lexed.tokens[k + 1])
              /\ EndOf(input, lexed.tokens[k], StartOf(input, lexed.tokens[k]))
                    <= StartOf(input, lexed.tokens[k + 1])

\* A string literal of two lines, then ORDER BY over two lines, then a name.
TokenPositionsWitness ==
    /\ lexed.done
    /\ lexed.err.Kind = "nil"
    /\ Len(lexed.tokens) = 4
    /\ lexed.tokens[1].Type = "STRING"
    /\ lexed.tokens[2].Type = "ORDER BY"
    /\ lexed.tokens[2].Line = 2
    /\ lexed.tokens[3].Line = 3
    /\ lexed.tokens[3].Column = 5

\* The offset of the first byte from j on that is a lexical error by the
\* scanning rules, or 0: a string literal left open (its opening quote), a
\* '!' that no '=' follows, a '-' that no digit follows, and any byte that
\* is no whitespace, punctuation, operator, digit, letter or '_'.
RECURSIVE FirstLexicalError(_, _)
FirstLexicalError(s, j) ==
    IF j > Len(s) THEN 0
    ELSE IF s[j] \in {"'", "\""}
    THEN IF ClosingQuote(s, s[j], j + 1) = 0 THEN j
         ELSE FirstLexicalError(s, ClosingQuote(s, s[j], j + 1) + 1)
    ELSE IF s[j] = "!"
    THEN IF j < Len(s) /\ s[j + 1] = "=" THEN FirstLexicalError(s, j + 2) ELSE j
    ELSE IF s[j] = "-"
    THEN IF j < Len(s) /\ isDigit(s[j + 1]) THEN FirstLexicalError(s, j + 1) ELSE j
    ELSE IF \/ s[j] \in Whitespace \cup {",", "(", ")", ".", "=", ">", "<", "_"}
            \/ isDigit(s[j])
            \/ isLetter(s[j])
    THEN FirstLexicalError(s, j + 1)
    ELSE j

(***************************************************************************)
(* C20  Lexer output shape: Tokenize on a fresh Lexer returns a nil error  *)
(* exactly when the text has no lexical error, and then the tokens end in  *)
(* the only end-of-input token and hold no error token; on a lexical error *)
(* it returns a ParseError with the position of the first offending byte   *)
(* and no token that starts after that byte; and a text of whitespace      *)
(* only, or of nothing, gives the end-of-input token alone.                *)
(***************************************************************************)
LexerOutputShape ==
    lexed.done =>
        \E e \in {FirstLexicalError(input, 1)} :
            /\ lexed.err.Kind = "nil" <=> e = 0
            /\ e = 0 =>
                  /\ lexed.tokens /= <<>>
                  /\ \A k \in DOMAIN lexed.tokens :
                        /\ lexed.tokens[k].Type = "EOF" <=> k = Len(lexed.tokens)
                        /\ lexed.tokens[k].Type /= "ERROR"
            /\ e > 0 =>
                  /\ lexed.err.Kind = "ParseError"
                  /\ lexed.err.Line = LineOf(input, e)
                  /\ lexed.err.Column = ColumnOf(input, e)
                  /\ \A k \in DOMAIN lexed.tokens : StartOf(input, lexed.tokens[k]) <= e
            /\ (\A i \in DOMAIN input : input[i] \in Whitespace) =>
                  /\ Len(lexed.tokens) = 1
                  /\ lexed.tokens[1].Type = "EOF"

\* The name tokens of the PARAMETERS clause whose keyword is token i: every
\* fourth token after it (name, '=', value, ',').
ParameterNames(toks, i) == {j \in (i + 1)..(Len(toks) - 1) : (j - i - 1) % 4 = 0}

(***************************************************************************)
(* C21  PARAMETERS: in a Query that Parse returns, the keys of Parameters  *)
(* are the parameter names of the text, each mapped to the value of its    *)
(* last occurrence, a repeated name being no error; and Parameters is the  *)
(* empty map when the text has no PARAMETERS clause.                       *)
(***************************************************************************)
ParametersClaim(toks, r) ==
    r.err.Kind = "nil" =>
        /\ TokensAt(toks, "PARAMETERS") = {} => r.query.Parameters = EmptyMap
        /\ \A i \in TokensAt(toks, "PARAMETERS") :
              /\ DOMAIN r.query.Parameters = {toks[j].Value : j \in ParameterNames(toks, i)}
              /\ \A j \in ParameterNames(toks, i) :
                    (\A k \in ParameterNames(toks, i) : toks[k].Value = toks[j].Value => k <= j)
                        => r.query.Parameters[toks[j].Value] = toks[j + 2].Value

ParametersLastWins == [][ParseReturns => ParametersClaim(TokensOf(input), parsed')]_vars

\* A name given twice has the second value.
ParametersLastWinsWitness ==
    /\ parsed.done
    /\ parsed.err.Kind = "nil"
    /\ parsed.query.Parameters = (<<"k">> :> <<"2">>)
    /\ Cardinality(ParameterNames(TokensOf(input),
                                   CHOOSE i \in TokensAt(TokensOf(input), "PARAMETERS") :
                                       TRUE)) = 2

\* The first condition of Where that rule 5 rejects.
FirstIncompatible(q) ==
    CHOOSE i \in DOMAIN q.Where :
        Incompatible(q.Where[i]) /\ \A j \in 1..(i - 1) : ~Incompatible(q.Where[j])

(***************************************************************************)
(* C22  Operator and value in Validate: for a Query that passes rules 1 to *)
(* 4, when some condition has DURING with a value that is no date range,   *)
(* or BETWEEN with a value that is no list of two elements each a          *)
(* YYYY-MM-DD date or a date-range keyword in any case, Validate returns   *)
(* an error of rule 5 whose Field is the field of the first such           *)
(* condition; and when no condition is such, it returns no error of rule   *)
(* 5.                                                                      *)
(***************************************************************************)
OperatorValueCompatibility ==
    verr.done /\ PassesUpTo(4, validator, query) =>
        IF \E i \in DOMAIN query.Where : Incompatible(query.Where[i])
        THEN /\ verr.err.Kind = "ValidationError"
             /\ RuleOf(verr.err) = 5
             /\ verr.err.Field = query.Where[FirstIncompatible(query)].Field
        ELSE RuleOf(verr.err) /= 5

\* The second condition is a BETWEEN whose second element is no date.
OperatorValueCompatibilityWitness ==
    /\ verr.done
    /\ PassesUpTo(4, validator, query)
    /\ verr.err.Kind = "ValidationError"
    /\ verr.err.Message[1] = "invalid date format (expected YYYY-MM-DD)"
    /\ Len(query.Where) = 2
    /\ FirstIncompatible(query) = 2

\* Digits, at least one.
IsDigits(s) == s /= <<>> /\ \A i \in DOMAIN s : isDigit(s[i])

\* Optional '-', digits, then optionally '.' and digits.
IsNumberText(s) ==
    \E body \in {IF s /= <<>> /\ s[1] = "-" THEN Tail(s) ELSE s} :
        \/ IsDigits(body)
        \/ \E d \in DOMAIN body :
              /\ body[d] = "."
              /\ IsDigits(SubSeq(body, 1, d - 1))
              /\ IsDigits(SubSeq(body, d + 1, Len(body)))

(***************************************************************************)
(* C23  Number token shape: the Value of every number token that Tokenize  *)
(* returns is the text at the token's position, and is an optional '-',    *)
(* one or more digits, and optionally a '.' followed by one or more        *)
(* digits.                                                                 *)
(***************************************************************************)
NumberTokenShape ==
    lexed.done =>
        \A k \in DOMAIN lexed.tokens :
            lexed.tokens[k].Type = "NUMBER" =>
                /\ \E i \in {StartOf(input, lexed.tokens[k])} :
                      lexed.tokens[k].Value =
                          SubSeq(input, i, i + Len(lexed.tokens[k].Value) - 1)
                /\ IsNumberText(lexed.tokens[k].Value)

\* The offset after the run of letters, digits and '_' that starts at i.
RECURSIVE WordEnd(_, _)
WordEnd(s, i) == IF i <= Len(s) /\ IsIdentByte(s[i]) THEN WordEnd(s, i + 1) ELSE i

\* The run of letters, digits and '_' that starts at offset i.
WordAt(s, i) == SubSeq(s, i, WordEnd(s, i) - 1)

WordOrder == <<"O", "R", "D", "E", "R">>

WordBy == <<"B", "Y">>

\* What the lexer is to make of the word ORDER at the start of token k: one
\* ORDER BY token exactly when the next word is BY, else an identifier with
\* the text as written, and the next word one token of its own.
OrderByAt(s, toks, k, next) ==
    IF ToUpper(WordAt(s, next)) = WordBy
    THEN toks[k].Type = "ORDER BY"
    ELSE /\ toks[k].Type = "IDENT"
         /\ toks[k].Value = WordAt(s, StartOf(s, toks[k]))
         /\ next <= Len(s) /\ (isLetter(s[next]) \/ s[next] = "_") =>
               /\ StartOf(s, toks[k + 1]) = next
               /\ ToUpper(toks[k + 1].Value) = ToUpper(WordAt(s, next))

(***************************************************************************)
(* C24  ORDER BY recognition: a token that starts at the word ORDER, in    *)
(* any case, is the one token ORDER BY exactly when the next word, past    *)
(* whitespace, is BY in any case and no longer; else it is an identifier   *)
(* with the text as written and the next word is one token.                *)
(***************************************************************************)
OrderByIsTwoWords ==
    lexed.done =>
        \A k \in DOMAIN lexed.tokens :
            /\ lexed.tokens[k].Type \in {"IDENT", "ORDER BY"}
            /\ ToUpper(WordAt(input, StartOf(input, lexed.tokens[k]))) = WordOrder
            => OrderByAt(input, lexed.tokens, k,
                         SkipSpaces(input, StartOf(input, lexed.tokens[k]) + 5))

KeywordTypes == {Keywords[w] : w \in DOMAIN Keywords} \ {"IDENT"}

(***************************************************************************)
(* C25  Identifier case preservation: the Value of every identifier token  *)
(* that Tokenize returns is the word of the text at the token's position   *)
(* as written, and the Value of every keyword and date-range token is that *)
(* word in upper case.                                                     *)
(***************************************************************************)
IdentifierKeepsCase ==
    lexed.done =>
        \A k \in DOMAIN lexed.tokens :
            /\ lexed.tokens[k].Type = "IDENT" =>
                  lexed.tokens[k].Value = WordAt(input, StartOf(input, lexed.tokens[k]))
            /\ lexed.tokens[k].Type \in KeywordTypes \cup {"DATE_RANGE"} =>
                  lexed.tokens[k].Value =
                      ToUpper(WordAt(input, StartOf(input, lexed.tokens[k])))

(***************************************************************************)
(* C26.  Query.String is a function of the Query: a second call of String  *)
(* on the same Query returns the string that the first call returned,      *)
(* whatever the Query holds, two or more Parameters and DURING conditions  *)
(* included.                                                               *)
(***************************************************************************)
StringIsDeterministic == again.done => again.text = printed.text

(***************************************************************************)
(* C27.  Whenever Parse accepts a text, Select holds the fields, Where the *)
(* AND-joined conditions and OrderBy the orderings in the order the text   *)
(* writes them, every one of them and each once for each time it is        *)
(* written; an ordering has Direction Desc exactly when DESC follows its   *)
(* field, and Asc when ASC or nothing does.                                *)
(***************************************************************************)
\* The field written from token i on, identifiers joined by dots, and the
\* index of the token after it.
RECURSIVE FieldFrom(_, _)
FieldFrom(toks, i) ==
    IF i + 2 <= Len(toks) /\ toks[i + 1].Type = "." /\ toks[i + 2].Type = "IDENT"
    THEN [name |-> toks[i].Value \o <<".">> \o FieldFrom(toks, i + 2).name,
          end |-> FieldFrom(toks, i + 2).end]
    ELSE [name |-> toks[i].Value, end |-> i + 1]

\* The fields of the comma-separated list written from token i on.
RECURSIVE FieldsWritten(_, _)
FieldsWritten(toks, i) ==
    <<FieldFrom(toks, i).name>>
    \o (IF toks[FieldFrom(toks, i).end].Type = ","
        THEN FieldsWritten(toks, FieldFrom(toks, i).end + 1)
        ELSE <<>>)

\* The index of the token after the direction, if any, that follows token i.
AfterDirection(toks, i) == IF toks[i].Type \in {"ASC", "DESC"} THEN i + 1 ELSE i

\* The orderings of the comma-separated list written from token i on.
RECURSIVE OrderingsWritten(_, _)
OrderingsWritten(toks, i) ==
    <<[Field |-> FieldFrom(toks, i).name,
       Direction |-> IF toks[FieldFrom(toks, i).end].Type = "DESC" THEN "Desc" ELSE "Asc"]>>
    \o (IF toks[AfterDirection(toks, FieldFrom(toks, i).end)].Type = ","
        THEN OrderingsWritten(toks, AfterDirection(toks, FieldFrom(toks, i).end) + 1)
        ELSE <<>>)

\* The tokens that start a condition: the one after WHERE, and the one after
\* each AND that is not the AND of a BETWEEN.
ConditionStarts(toks) ==
    {j + 1 : j \in {j \in 1..(Len(toks) - 1) :
                       \/ toks[j].Type = "WHERE"
                       \/ toks[j].Type = "AND" /\ toks[j - 2].Type /= "BETWEEN"}}

\* The k-th smallest member of a set of numbers.
Kth(S, k) == CHOOSE n \in S : Cardinality({m \in S : m < n}) = k - 1

\* The field and the first word of the operator of each condition written.
ConditionsWritten(toks) ==
    [k \in 1..Cardinality(ConditionStarts(toks)) |->
        [Field |-> FieldFrom(toks, Kth(ConditionStarts(toks), k)).name,
         Word |-> toks[FieldFrom(toks, Kth(ConditionStarts(toks), k)).end].Value]]

\* The orderings the text writes after ORDER BY, none if it has no ORDER BY.
OrderByWritten(toks) ==
    IF TokensAt(toks, "ORDER BY") = {} THEN <<>>
    ELSE OrderingsWritten(toks, (CHOOSE k \in TokensAt(toks, "ORDER BY") : TRUE) + 1)

OrderPreservedClaim(toks, r) ==
    r.err.Kind = "nil"
    => /\ [i \in DOMAIN r.query.Select |-> r.query.Select[i].Name] = FieldsWritten(toks, 2)
       /\ Len(r.query.Where) = Len(ConditionsWritten(toks))
       /\ \A k \in DOMAIN r.query.Where :
             /\ r.query.Where[k].Field = ConditionsWritten(toks)[k].Field
             /\ SubSeq(OperatorString(r.query.Where[k].Operator), 1,
                       Len(ConditionsWritten(toks)[k].Word)) = ConditionsWritten(toks)[k].Word
       /\ r.query.OrderBy = OrderByWritten(toks)

OrderPreserved == [][ParseReturns => OrderPreservedClaim(TokensOf(input), parsed')]_vars

OrderPreservedWitness ==
    /\ parsed.done
    /\ parsed.err.Kind = "nil"
    /\ Len(parsed.query.Where) = 3
    /\ parsed.query.Where[1] = parsed.query.Where[3]
    /\ parsed.query.Where[1] /= parsed.query.Where[2]
    /\ parsed.query.OrderBy = <<[Field |-> <<"b">>, Direction |-> "Desc"],
                                [Field |-> <<"a">>, Direction |-> "Asc"],
                                [Field |-> <<"b">>, Direction |-> "Asc"]>>

(***************************************************************************)
(* C28.  Tokenize and Parse end on every text and never go back: the byte  *)
(* offset of the lexer and the token index of the parser never decrease;   *)
(* an iteration of the loop of Tokenize consumes at least one byte, or its *)
(* token is the end-of-input or an error token and the loop ends; an       *)
(* iteration of a list loop of the parser (fields, conditions, list items, *)
(* orderings, parameters) consumes at least one token or returns an error. *)
(* That they end is shown by a measure, a natural number that every step   *)
(* makes smaller.                                                          *)
(***************************************************************************)
\* The clauses of parseQuery from the last to the first, and the place of a
\* clause among them.
ClausesLeft ==
    <<"done", "end", "parameters", "params", "limit", "orderings", "orderby", "items",
      "conditions", "where", "from", "fields", "select", "lex">>

ClausesLeftAt(pc) == CHOOSE i \in DOMAIN ClausesLeft : ClausesLeft[i] = pc

\* What is left to do: the bytes not yet read and whether the loop of
\* Tokenize runs, then the tokens not yet read and the clauses not yet done.
LexerMeasure == 2 * (Len(input) - lexer.pos) + (IF lexed.done THEN 0 ELSE 1)

ParserMeasure ==
    Len(ClausesLeft) * (Len(parser.tokens) - parser.pos) + ClausesLeftAt(parser.pc)

ListLoops == {"fields", "conditions", "items", "orderings", "parameters"}

TokenizeIterates == Len(lexer'.tokens) = Len(lexer.tokens) + 1

ParserIterates == lexed.done /\ parser' /= parser

LastToken(l) == l.tokens[Len(l.tokens)]

NoBacktrackingStep ==
    /\ lexer'.pos >= lexer.pos
    /\ lexer'.pos <= Len(input)
    /\ parser'.pos <= Len(parser'.tokens)
    /\ TokenizeIterates
       => /\ LexerMeasure' < LexerMeasure
          /\ \/ lexer'.pos > lexer.pos
             \/ LastToken(lexer').Type \in {"EOF", "ERROR"} /\ lexed'.done
    /\ ParserIterates
       => /\ parser'.pos >= parser.pos
          /\ ParserMeasure' < ParserMeasure
          /\ parser.pc \in ListLoops
             => \/ parser'.pos > parser.pos
                \/ parser'.pc = "done" /\ parser'.err.Kind = "ParseError"

TerminatesWithoutBacktracking == [][NoBacktrackingStep]_vars

\* Parse has returned a Query after two iterations of the loop of parseList
\* and two of the loop of parseParameters.
TerminatesWithoutBacktrackingWitness ==
    /\ parser.pc = "done"
    /\ parser.err.Kind = "nil"
    /\ \E i \in DOMAIN parser.query.Where : Len(parser.query.Where[i].Value.List) = 2
    /\ Cardinality(DOMAIN parser.query.Parameters) = 2

(***************************************************************************)
(* C29.  A text that is one run of letters, digits and '_' starting with a *)
(* letter or '_', a letter being any Unicode letter and one outside ASCII  *)
(* being written as its bytes in UTF-8, is lexed without error as one      *)
(* token that ends where the run ends, followed by the end-of-input token; *)
(* when the token is an identifier its Value is the whole run.             *)
(***************************************************************************)
\* Letters outside ASCII as UTF-8 writes them: é, õ and the Greek α.
Utf8Letters == {<<"xC3", "xA9">>, <<"xC3", "xB5">>, <<"xCE", "xB1">>}

\* Whether s is made of ASCII letters, digits, '_' and letters in UTF-8.
RECURSIVE IsRunOfLetters(_)
IsRunOfLetters(s) ==
    \/ s = <<>>
    \/ s[1] \in AsciiLetters \cup {"0", "1", "2", "3", "4", "5", "6", "7", "8", "9", "_"}
       /\ IsRunOfLetters(Tail(s))
    \/ Len(s) >= 2 /\ SubSeq(s, 1, 2) \in Utf8Letters /\ IsRunOfLetters(SubSeq(s, 3, Len(s)))

IsIdentifierRun(s) ==
    /\ s /= <<>>
    /\ s[1] \notin {"0", "1", "2", "3", "4", "5", "6", "7", "8", "9"}
    /\ IsRunOfLetters(s)

UnicodeIdentifiers ==
    (lexed.done /\ IsIdentifierRun(input))
    => /\ lexed.err.Kind = "nil"
       /\ Len(lexed.tokens) = 2
       /\ lexed.tokens[1].Type = "IDENT" => lexed.tokens[1].Value = input
       /\ lexed.tokens[2].Type = "EOF"
       /\ lexed.tokens[2].Column = Len(input) + 1

(***************************************************************************)
(* C30.  A second call of Tokenize on the same Lexer returns the token     *)
(* sequence and the error that the first call returned: the sequence holds *)
(* no token twice over from the earlier call, and when the first call      *)
(* ended at the end of input it holds exactly one end-of-input token.      *)
(***************************************************************************)
TokenizeAgainIsSame ==
    again.done
    => /\ again.tokens = lexed.tokens
       /\ again.err = lexed.err
       /\ lexed.err.Kind = "nil" => Cardinality(TokensAt(again.tokens, "EOF")
                                                \cup {Len(again.tokens)}) = 1
====
